---- MODULE Spec2Model ----
(***************************************************************************)
(* A model of OptimizationAnalyzer.analyze (src/src/analysis/optimization.py) *)
(* and of BaseAnalyzer.validate_data (src/src/analysis/base_analyzer.py).   *)
(*                                                                         *)
(* One call of analyze is followed statement block by statement block: the *)
(* program counter pc names the block that runs next.  DataFrames live in  *)
(* a heap of objects, so that copy(), boolean indexing and the in-place    *)
(* column assignment act on the object they act on in pandas.              *)
(*                                                                         *)
(* Numbers: column values and weights are integers, scores are exact       *)
(* fractions <<num, den>> in lowest terms (den > 0).  IEEE rounding and    *)
(* NaN cells are outside the model: target columns hold finite numbers.    *)
(*                                                                         *)
(* Several invocations: the variables pc ... result are the frame of the   *)
(* invocation that is running; the frames of the others (not started,      *)
(* preempted or returned) are parked.  The heap, the analyzer instance and *)
(* numpy's sort are what the invocations of a process share.               *)
(***************************************************************************)
EXTENDS Integers, Sequences, FiniteSets, TLC

VARIABLES
    pc,            \* the block of analyze that runs next; "done" after return
    data,          \* argument data: the heap reference of the caller's DataFrame, NullRef for None
    data0,         \* the caller's DataFrame as it was when analyze was called
    req,           \* the other arguments of analyze
    heap,          \* the DataFrame objects: a sequence, a reference is a position
    df_filtered,   \* local df_filtered (a reference, 0 while unbound)
    scores,        \* local scores (a sequence of fractions, <<>> while unbound)
    top_solutions, \* local top_solutions (a reference, 0 while unbound)
    called,        \* the helper methods analyze has invoked so far
    result,        \* the outcome of the call (status "pending" until it ends)
    self,          \* the OptimizationAnalyzer instance: its attributes
    argsort,       \* numpy's argsort as the process has seen it: pairs <<keys, order>>
    current,       \* the number of the invocation that is running
    parked,        \* the frames of the invocations that are not running
    AnalysisRegistry, \* the class AnalysisRegistry: its attributes _instance and _analyzers
    registries,    \* the references to a registry the program holds, registries[1] the global
    window,        \* the MainWindow: data, loader_thread and what its table area shows
    threads,       \* the FileLoaderThread objects created so far
    events,        \* the finished signals queued for the main thread
    dialog         \* the OptimizationDialog: its widgets, its outcome

\* The variables of a call of analyze, and those of the application around it.
call == <<pc, data, data0, req, heap, df_filtered, scores, top_solutions, called, result,
          self, argsort, current, parked>>
app == <<AnalysisRegistry, registries, window, threads, events, dialog>>
vars == <<call, app>>

\* Optional values: None is the empty tuple, a present value x is <<x>>.
None == <<>>
Some(x) == <<x>>
\* References: a position in heap; NullRef is Python's None, or a local not yet bound.
NullRef == 0

(***************************************************************************)
(* Bounds of the model.                                                    *)
(***************************************************************************)
MaxRows == 3

(***************************************************************************)
(* Exact fractions.                                                        *)
(***************************************************************************)
Abs(n) == IF n < 0 THEN -n ELSE n

RECURSIVE GCD(_, _)
GCD(a, b) == IF b = 0 THEN a ELSE GCD(b, a % b)

Frac(n, d) ==
    LET s == IF d < 0 THEN -1 ELSE 1
        g == GCD(Abs(n), Abs(d))
    IN  <<(s * n) \div g, (s * d) \div g>>

Zero == <<0, 1>>
One == <<1, 1>>
FromInt(n) == <<n, 1>>
FAdd(a, b) == Frac(a[1] * b[2] + b[1] * a[2], a[2] * b[2])
FSub(a, b) == Frac(a[1] * b[2] - b[1] * a[2], a[2] * b[2])
FMul(a, b) == Frac(a[1] * b[1], a[2] * b[2])
FDiv(a, b) == Frac(a[1] * b[2], a[2] * b[1])
FLess(a, b) == a[1] * b[2] < b[1] * a[2]
FLeq(a, b) == a[1] * b[2] <= b[1] * a[2]

(***************************************************************************)
(* DataFrames.  A frame is [columns, index, rows]: the column labels in    *)
(* order, the row labels in order, and per row a function from column      *)
(* label to cell.  Every frame of a run comes from the caller's frame, so  *)
(* a column's dtype is that of the caller's column of the same name.       *)
(***************************************************************************)
ScoreColumn == "_composite_score"

\* The caller's columns: A and B hold integers, X an integer, S text.
DataColumns == <<"A", "B", "X", "S">>
IsNumericDtype(col) ==
    col \in {"A", "B", "X", "Pass", "pass", "Row Index", "Yield", "Cost", "X1", ScoreColumn}

Range(s) == {s[i] : i \in DOMAIN s}
NRows(f) == Len(f.rows)
\* IsEmptyFrame that looks at the columns only.
IsEmptyFrameColumnsOnly(f) == Len(f.columns) = 0

\* DataFrame.empty: an axis of length 0
IsEmptyFrame(f) == Len(f.columns) = 0 \/ Len(f.index) = 0
ColumnValues(f, col) == [i \in 1..NRows(f) |-> f.rows[i][col]]

\* The positions of a sequence that are in keep, in increasing order.
RECURSIVE Positions(_, _)
Positions(n, keep) ==
    IF n = 0 THEN <<>>
    ELSE IF n \in keep THEN Append(Positions(n - 1, keep), n)
    ELSE Positions(n - 1, keep)

\* f.iloc[p]: the rows at positions p[1], p[2], ... in that order.
Take(f, p) ==
    [columns |-> f.columns,
     index   |-> [i \in 1..Len(p) |-> f.index[p[i]]],
     rows    |-> [i \in 1..Len(p) |-> f.rows[p[i]]]]

\* df[mask]: a new frame with the rows whose mask is True, order kept.
BooleanIndex(f, mask) == Take(f, Positions(NRows(f), {i \in 1..NRows(f) : mask[i]}))

\* df[col] = values, in place: the column is appended when it is new.
SetColumn(f, col, values) ==
    [columns |-> IF col \in Range(f.columns) THEN f.columns ELSE Append(f.columns, col),
     index   |-> f.index,
     rows    |-> [i \in 1..NRows(f) |->
                    [c \in (DOMAIN f.rows[i]) \cup {col} |->
                        IF c = col THEN values[i] ELSE f.rows[i][c]]]]

\* df[cols]: a new frame with the listed columns, in the listed order.
SelectColumns(f, cols) ==
    [columns |-> cols,
     index   |-> f.index,
     rows    |-> [i \in 1..NRows(f) |-> [c \in Range(cols) |-> f.rows[i][c]]]]

\* HeadCount that stops one row early.
HeadCountOneShort(len, n) ==
    IF n >= 0 THEN (IF n - 1 < len THEN n - 1 ELSE len)
    ELSE (IF len + n > 0 THEN len + n ELSE 0)

\* HeadCount that takes a negative n for 0.
HeadCountNegativeAsZero(len, n) ==
    IF n >= 0 THEN (IF n < len THEN n ELSE len) ELSE 0

\* df.head(n), Python slicing [:n]: a negative n drops the last -n rows.
HeadCount(len, n) ==
    IF n >= 0 THEN (IF n < len THEN n ELSE len)
    ELSE (IF len + n > 0 THEN len + n ELSE 0)

DfHead(f, n) == Take(f, [i \in 1..HeadCount(NRows(f), n) |-> i])

\* A new object holding frame f: the heap after it, and its reference.
Alloc(h, f) == [heap |-> Append(h, f), ref |-> Len(h) + 1]

\* Reference counting: an object no variable refers to is freed.  Its
\* position is kept, so the references to the other objects stay valid.
Freed == [columns |-> <<>>, index |-> <<>>, rows |-> <<>>]
Collect(h, live) == [i \in DOMAIN h |-> IF i \in live THEN h[i] ELSE Freed]

\* CopyFrame that hands back the object itself.
CopyFrameShared(h, ref) == [heap |-> h, ref |-> ref]

\* DataFrame.copy(): a new object with the content of the object at ref.
CopyFrame(h, ref) == Alloc(h, h[ref])

(***************************************************************************)
(* BaseAnalyzer.validate_data: None when the data is usable, else the      *)
(* error message.                                                          *)
(***************************************************************************)
validate_data(h, ref) ==
    IF ref = NullRef THEN Some(<<"No data provided">>)
    ELSE IF IsEmptyFrame(h[ref]) THEN Some(<<"DataFrame is empty">>)
    ELSE None

(***************************************************************************)
(* OptimizationAnalyzer._validate_inputs: None when the request is valid,  *)
(* else the message of the first check that fails, in the order of the     *)
(* code.  A message is the tuple of its text and its interpolated values.  *)
(***************************************************************************)
MaxTargets == 5

\* for target in target_variables: the first target that fails a check, from position i
RECURSIVE CheckTargets(_, _, _)
CheckTargets(columns, target_variables, i) ==
    IF i > Len(target_variables) THEN None
    ELSE IF target_variables[i] \notin Range(columns)
         THEN Some(<<"Target variable '", target_variables[i], "' not found in data.">>)
    ELSE IF ~IsNumericDtype(target_variables[i])
         THEN Some(<<"Target variable '", target_variables[i], "' must be numeric.">>)
    ELSE CheckTargets(columns, target_variables, i + 1)

\* CheckDirections that accepts every value.
CheckDirectionsSkipped(optimization_directions, i) == None

RECURSIVE CheckDirections(_, _)
CheckDirections(optimization_directions, i) ==
    IF i > Len(optimization_directions) THEN None
    ELSE IF optimization_directions[i] \notin {"maximize", "minimize"}
         THEN Some(<<"Invalid optimization direction: ", optimization_directions[i],
                     ". Must be 'maximize' or 'minimize'.">>)
    ELSE CheckDirections(optimization_directions, i + 1)

RECURSIVE SumSeq(_, _)
SumSeq(s, i) == IF i > Len(s) THEN 0 ELSE s[i] + SumSeq(s, i + 1)

\* CheckConstraintKeys that lets every key pass.
CheckConstraintKeysSkipped(constraints, target_variables, i) == None

\* for target_name in constraints.keys(): in the dict's insertion order
RECURSIVE CheckConstraintKeys(_, _, _)
CheckConstraintKeys(constraints, target_variables, i) ==
    IF i > Len(constraints) THEN None
    ELSE IF constraints[i].key \notin Range(target_variables)
         THEN Some(<<"Constraint specified for '", constraints[i].key,
                     "' but this target is not selected.">>)
    ELSE CheckConstraintKeys(constraints, target_variables, i + 1)

RECURSIVE CheckInputs(_, _, _)
CheckInputs(columns, input_variables, i) ==
    IF i > Len(input_variables) THEN None
    ELSE IF input_variables[i] \notin Range(columns)
         THEN Some(<<"Input variable '", input_variables[i], "' not found in data.">>)
    ELSE IF ~IsNumericDtype(input_variables[i])
         THEN Some(<<"Input variable '", input_variables[i], "' must be numeric.">>)
    ELSE CheckInputs(columns, input_variables, i + 1)

\* _validate_inputs without the two comparisons of list lengths.
_validate_inputs_lengths_unchecked(f, r) ==
    LET tv == r.target_variables
        n  == Len(tv)
    IN
    IF n = 0 THEN Some(<<"At least one target variable must be selected.">>)
    ELSE IF n > MaxTargets THEN Some(<<"Maximum 5 target variables allowed.">>)
    ELSE IF CheckTargets(f.columns, tv, 1) # None THEN CheckTargets(f.columns, tv, 1)
    ELSE IF CheckDirections(r.optimization_directions, 1) # None
         THEN CheckDirections(r.optimization_directions, 1)
    ELSE IF \E i \in DOMAIN r.weights : r.weights[i] < 0
         THEN Some(<<"All weights must be non-negative.">>)
    ELSE IF SumSeq(r.weights, 1) = 0
         THEN Some(<<"At least one weight must be positive.">>)
    ELSE IF CheckConstraintKeys(r.constraints, tv, 1) # None
         THEN CheckConstraintKeys(r.constraints, tv, 1)
    ELSE IF Len(r.input_variables) = 0
         THEN Some(<<"At least one input variable must be selected.">>)
    ELSE IF CheckInputs(f.columns, r.input_variables, 1) # None
         THEN CheckInputs(f.columns, r.input_variables, 1)
    ELSE IF Range(tv) \cap Range(r.input_variables) # {}
         THEN Some(<<"Target variables and input variables cannot overlap.">>)
    ELSE None

_validate_inputs(f, r) ==
    LET tv == r.target_variables
        n  == Len(tv)
    IN
    IF n = 0 THEN Some(<<"At least one target variable must be selected.">>)
    ELSE IF n > MaxTargets THEN Some(<<"Maximum 5 target variables allowed.">>)
    ELSE IF CheckTargets(f.columns, tv, 1) # None THEN CheckTargets(f.columns, tv, 1)
    ELSE IF Len(r.optimization_directions) # n
         THEN Some(<<"Optimization direction must be specified for all ", n, " targets.">>)
    ELSE IF CheckDirections(r.optimization_directions, 1) # None
         THEN CheckDirections(r.optimization_directions, 1)
    ELSE IF Len(r.weights) # n
         THEN Some(<<"Weights must be specified for all ", n, " targets.">>)
    ELSE IF \E i \in DOMAIN r.weights : r.weights[i] < 0
         THEN Some(<<"All weights must be non-negative.">>)
    ELSE IF SumSeq(r.weights, 1) = 0
         THEN Some(<<"At least one weight must be positive.">>)
    ELSE IF CheckConstraintKeys(r.constraints, tv, 1) # None
         THEN CheckConstraintKeys(r.constraints, tv, 1)
    ELSE IF Len(r.input_variables) = 0
         THEN Some(<<"At least one input variable must be selected.">>)
    ELSE IF CheckInputs(f.columns, r.input_variables, 1) # None
         THEN CheckInputs(f.columns, r.input_variables, 1)
    ELSE IF Range(tv) \cap Range(r.input_variables) # {}
         THEN Some(<<"Target variables and input variables cannot overlap.">>)
    ELSE None

(***************************************************************************)
(* OptimizationAnalyzer._apply_constraints.  constraints is the dict in    *)
(* its iteration order: a sequence of [key, type, value], where type and   *)
(* value are optional (constraint.get('type', '>'), .get('value', 0)) and  *)
(* a value is a number [kind |-> "number", n |-> ...] or something else.   *)
(***************************************************************************)
Number(n) == [kind |-> "number", n |-> n]
Text == [kind |-> "text", n |-> 0]
\* Get that ignores what the dict holds.
GetDefaultAlways(opt, default) == default

Get(opt, default) == IF opt = None THEN default ELSE opt[1]

\* Compare with >= taken for > : a boundary row is dropped.
CompareBoundaryDropped(cell, op, value) ==
    CASE op = ">"  -> cell > value
      [] op = ">=" -> cell > value
      [] op = "<"  -> cell < value
      [] op = "<=" -> cell <= value
      [] op = "==" -> cell = value

\* cell <op> value, for a numeric cell and a numeric value
Compare(cell, op, value) ==
    CASE op = ">"  -> cell > value
      [] op = ">=" -> cell >= value
      [] op = "<"  -> cell < value
      [] op = "<=" -> cell <= value
      [] op = "==" -> cell = value

\* Series <op> value raises TypeError when an ordering is asked against a non-number.
ComparisonRaises(op, value) == op \in {">", ">=", "<", "<="} /\ value.kind # "number"

\* The mask df[target_name] <op> value; == against a non-number is False everywhere.
Mask(f, col, op, value) ==
    [i \in 1..NRows(f) |->
        IF value.kind = "number" THEN Compare(f.rows[i][col], op, value.n) ELSE FALSE]

\* The for loop from constraint i on, on frame f; created tells whether a
\* df[...] has made a new frame object so far.
RECURSIVE ConstraintLoop(_, _, _, _, _)
ConstraintLoop(f, created, target_variables, constraints, i) ==
    IF i > Len(constraints) THEN [raised |-> FALSE, frame |-> f, created |-> created]
    ELSE
    LET c  == constraints[i]
        constraint_type  == Get(c.type, ">")
        constraint_value == Get(c.value, Number(0))
        op == IF constraint_type = "=" THEN "==" ELSE constraint_type
    IN
    IF c.key \notin Range(target_variables)
        THEN ConstraintLoop(f, created, target_variables, constraints, i + 1)
    ELSE IF op \notin {">", ">=", "<", "<=", "=="}
        THEN ConstraintLoop(f, created, target_variables, constraints, i + 1)
    ELSE IF ComparisonRaises(op, constraint_value)
        THEN [raised |-> TRUE, frame |-> f, created |-> created]
    ELSE ConstraintLoop(BooleanIndex(f, Mask(f, c.key, op, constraint_value)), TRUE,
                        target_variables, constraints, i + 1)

\* The call: [raised, heap, ref]; ref is the returned frame's object.
_apply_constraints(h, ref, target_variables, constraints) ==
    LET copy == CopyFrame(h, ref)
        loop == ConstraintLoop(copy.heap[copy.ref], FALSE, target_variables, constraints, 1)
        out  == IF loop.created THEN Alloc(copy.heap, loop.frame) ELSE copy
    IN  [raised |-> loop.raised, heap |-> out.heap, ref |-> out.ref]

(***************************************************************************)
(* OptimizationAnalyzer._calculate_scores.                                 *)
(***************************************************************************)
\* ndarray.min() and .max() of a non-empty integer column, left to right
RECURSIVE ArrayMin(_, _)
ArrayMin(a, i) ==
    IF i = 1 THEN a[1]
    ELSE LET m == ArrayMin(a, i - 1) IN IF a[i] < m THEN a[i] ELSE m

RECURSIVE ArrayMax(_, _)
ArrayMax(a, i) ==
    IF i = 1 THEN a[1]
    ELSE LET m == ArrayMax(a, i - 1) IN IF a[i] > m THEN a[i] ELSE m

\* the same for an array of fractions
RECURSIVE ScoreMin(_, _)
ScoreMin(a, i) ==
    IF i = 1 THEN a[1]
    ELSE LET m == ScoreMin(a, i - 1) IN IF FLess(a[i], m) THEN a[i] ELSE m

RECURSIVE ScoreMax(_, _)
ScoreMax(a, i) ==
    IF i = 1 THEN a[1]
    ELSE LET m == ScoreMax(a, i - 1) IN IF FLess(m, a[i]) THEN a[i] ELSE m

Min3(a, b, c) == LET m == IF a < b THEN a ELSE b IN IF m < c THEN m ELSE c

\* Normalized without the inversion that 'minimize' asks for.
NormalizedNeverInverted(target_values, min_val, max_val, direction) ==
    [k \in DOMAIN target_values |-> Frac(target_values[k] - min_val, max_val - min_val)]

\* Normalized with the inversion applied to 'maximize'.
NormalizedMaximizeInverted(target_values, min_val, max_val, direction) ==
    [k \in DOMAIN target_values |->
        LET n == Frac(target_values[k] - min_val, max_val - min_val)
        IN  IF direction = "maximize" THEN FSub(One, n) ELSE n]

\* (target_values - min_val) / (max_val - min_val), inverted for 'minimize'
Normalized(target_values, min_val, max_val, direction) ==
    [k \in DOMAIN target_values |->
        LET n == Frac(target_values[k] - min_val, max_val - min_val)
        IN  IF direction = "minimize" THEN FSub(One, n) ELSE n]

\* Contribution with a constant column counted as fully achieved (weight * 1).
ContributionConstantCounts(target_values, direction, weight) ==
    LET min_val == ArrayMin(target_values, Len(target_values))
        max_val == ArrayMax(target_values, Len(target_values))
        normalized == Normalized(target_values, min_val, max_val, direction)
    IN  IF weight = 0 THEN [k \in DOMAIN target_values |-> Zero]
        ELSE IF max_val = min_val THEN [k \in DOMAIN target_values |-> FromInt(weight)]
        ELSE [k \in DOMAIN target_values |-> FMul(FromInt(weight), normalized[k])]

\* Contribution that takes a weight of 0 for a weight of 1.
ContributionZeroWeightCounts(target_values, direction, weight) ==
    LET min_val == ArrayMin(target_values, Len(target_values))
        max_val == ArrayMax(target_values, Len(target_values))
        normalized == Normalized(target_values, min_val, max_val, direction)
        w == IF weight = 0 THEN 1 ELSE weight
    IN  IF max_val = min_val THEN [k \in DOMAIN target_values |-> Zero]
        ELSE [k \in DOMAIN target_values |-> FMul(FromInt(w), normalized[k])]

\* What one pass of the loop body adds to scores: nothing when the weight
\* is 0 (continue) or the column is constant (continue).
Contribution(target_values, direction, weight) ==
    LET min_val == ArrayMin(target_values, Len(target_values))
        max_val == ArrayMax(target_values, Len(target_values))
        normalized == Normalized(target_values, min_val, max_val, direction)
    IN  IF weight = 0 THEN [k \in DOMAIN target_values |-> Zero]
        ELSE IF max_val = min_val THEN [k \in DOMAIN target_values |-> Zero]
        ELSE [k \in DOMAIN target_values |-> FMul(FromInt(weight), normalized[k])]

\* The for loop over zip(target_variables, optimization_directions, weights)
\* from position i on, with the scores accumulated so far.
RECURSIVE ScoreLoop(_, _, _, _, _, _)
ScoreLoop(f, target_variables, optimization_directions, weights, i, acc) ==
    IF i > Min3(Len(target_variables), Len(optimization_directions), Len(weights)) THEN acc
    ELSE
    LET add == Contribution(ColumnValues(f, target_variables[i]),
                            optimization_directions[i], weights[i])
    IN  ScoreLoop(f, target_variables, optimization_directions, weights, i + 1,
                  [k \in DOMAIN acc |-> FAdd(acc[k], add[k])])

\* scores before the final rescaling: np.zeros(len(data)), then the loop
RawScores(f, target_variables, optimization_directions, weights) ==
    ScoreLoop(f, target_variables, optimization_directions, weights, 1,
              [k \in 1..NRows(f) |-> Zero])

\* Rescale that measures from the maximum down: (max - score) / (max - min).
RescaleReversed(raw) ==
    LET lo == ScoreMin(raw, Len(raw))
        hi == ScoreMax(raw, Len(raw))
    IN  IF FLess(lo, hi)
        THEN [k \in DOMAIN raw |-> FDiv(FSub(hi, raw[k]), FSub(hi, lo))]
        ELSE raw

\* Rescale that divides by the maximum and leaves the minimum where it is.
RescaleByMaximum(raw) ==
    LET lo == ScoreMin(raw, Len(raw))
        hi == ScoreMax(raw, Len(raw))
    IN  IF FLess(lo, hi)
        THEN [k \in DOMAIN raw |-> FDiv(raw[k], hi)]
        ELSE raw

\* if scores.max() > scores.min(): scores = (scores - min) / (max - min)
Rescale(raw) ==
    LET lo == ScoreMin(raw, Len(raw))
        hi == ScoreMax(raw, Len(raw))
    IN  IF FLess(lo, hi)
        THEN [k \in DOMAIN raw |-> FDiv(FSub(raw[k], lo), FSub(hi, lo))]
        ELSE raw

\* min() and max() of a zero-size array raise ValueError
ScoresRaise(f) == NRows(f) = 0

_calculate_scores(f, target_variables, optimization_directions, weights) ==
    Rescale(RawScores(f, target_variables, optimization_directions, weights))

(***************************************************************************)
(* DataFrame.sort_values('_composite_score', ascending=False).  The call   *)
(* leaves kind at its default, 'quicksort', which pandas documents as not  *)
(* stable: rows come out by score descending, and rows of equal score in   *)
(* an order that numpy's sort chooses.  Every such order is an outcome.    *)
(***************************************************************************)
\* IsDescending that asks for ascending scores.
IsDescendingReversed(f, col, p) ==
    \A i, j \in 1..Len(p) : i < j => FLeq(f.rows[p[i]][col], f.rows[p[j]][col])

\* The orders of n rows: the bijections of 1..n.
RowOrders(n) == Permutations(1..n)

IsDescending(f, col, p) ==
    \A i, j \in 1..Len(p) : i < j => FLeq(f.rows[p[j]][col], f.rows[p[i]][col])

SortOrders(f, col) == {p \in RowOrders(NRows(f)) : IsDescending(f, col, p)}

(***************************************************************************)
(* The result table: lines 121-135 of analyze.                             *)
(***************************************************************************)
RoundScale == 10000

\* round-half-to-even of the fraction n/d (d > 0) to an integer
RoundHalfEven(n, d) ==
    LET q == n \div d
        r == n % d
    IN  IF 2 * r < d THEN q
        ELSE IF 2 * r > d THEN q + 1
        ELSE IF q % 2 = 0 THEN q ELSE q + 1

\* DataFrame.round(4) of a score
Round4(x) == Frac(RoundHalfEven(x[1] * RoundScale, x[2]), RoundScale)

\* result_df.insert(0, name, values): raises ValueError when the column exists
InsertRaises(f, name) == name \in Range(f.columns)

InsertFirst(f, name, values) ==
    [columns |-> <<name>> \o f.columns,
     index   |-> f.index,
     rows    |-> [i \in 1..NRows(f) |->
                    [c \in (DOMAIN f.rows[i]) \cup {name} |->
                        IF c = name THEN values[i] ELSE f.rows[i][c]]]]

\* IdentifierSource that knows the spelling 'Pass' only.
IdentifierSourceCapitalOnly(columns) ==
    IF "Pass" \in Range(columns) THEN Some("Pass") ELSE None

\* The identifier column analyze adds: its name and the column it is read from
\* (None: the index of top_solutions).
IdentifierSource(columns) ==
    IF "Pass" \in Range(columns) THEN Some("Pass")
    ELSE IF "pass" \in Range(columns) THEN Some("pass")
    ELSE None

IdentifierName(columns) == IF IdentifierSource(columns) = None THEN "Row Index" ELSE "Pass"

IdentifierValues(columns, top) ==
    IF IdentifierSource(columns) = None THEN top.index
    ELSE ColumnValues(top, IdentifierSource(columns)[1])

\* result_df[numeric_cols] = result_df[numeric_cols].round(4): integer cells stay
RoundFrame(f) ==
    [f EXCEPT !.rows = [i \in 1..NRows(f) |->
        [c \in DOMAIN f.rows[i] |->
            IF c = ScoreColumn THEN Round4(f.rows[i][c]) ELSE f.rows[i][c]]]]

\* _create_summary that reports the total row count as the filtered one.
_create_summary_unfiltered(total_rows, filtered_rows, result_rows, target_variables, input_variables) ==
    [total_rows |-> total_rows, filtered_rows |-> total_rows,
     result_rows |-> result_rows, target_variables |-> target_variables,
     input_variables |-> input_variables]

\* _create_summary: the values the text interpolates
_create_summary(total_rows, filtered_rows, result_rows, target_variables, input_variables) ==
    [total_rows |-> total_rows, filtered_rows |-> filtered_rows,
     result_rows |-> result_rows, target_variables |-> target_variables,
     input_variables |-> input_variables]

(***************************************************************************)
(* What analyze returns.                                                   *)
(***************************************************************************)
Pending == [status |-> "pending"]

\* What parked holds in the place of the running invocation.
Running ==
    [pc |-> "running", data |-> NullRef, data0 |-> Freed, req |-> <<>>,
     df_filtered |-> NullRef, scores |-> <<>>, top_solutions |-> NullRef, called |-> {},
     result |-> Pending]

\* OptimizationAnalyzer(): the attributes __init__ sets.
Instance ==
    [name |-> "Optimization",
     description |-> "Finds optimal combinations of input variables to optimize target variables with constraints"]

Failure(message) ==
    [status |-> "returned", success |-> FALSE, error |-> Some(message),
     data |-> None, summary |-> None]

Success(frame, summary) ==
    [status |-> "returned", success |-> TRUE, data |-> Some(frame),
     summary |-> Some(summary), error |-> None, result_type |-> "optimization"]

\* Caught without the except clause: the exception reaches the caller.
CaughtNowhere(e) == [status |-> "raised", exception |-> e]

\* except Exception as e: the failure that wraps str(e)
Caught(e) == Failure(<<"Error during optimization: ", e>>)

(***************************************************************************)
(* AnalysisRegistry (src/src/analysis/registry.py).  The class object      *)
(* holds _instance and the dict _analyzers; an instance has no attribute   *)
(* of its own, so self._analyzers is the class's dict.  A reference to an  *)
(* instance is a positive number, classes are named by their names.        *)
(***************************************************************************)
MaxRegistries == 3

\* class X(Y): the base of every class the program may hand to register
BaseOf(cls) ==
    CASE cls \in {"DatasetOverviewAnalyzer", "BasicStatisticsAnalyzer", "CorrelationAnalyzer",
                  "OptimizationAnalyzer"} -> "BaseAnalyzer"
      [] cls = "BaseAnalyzer" -> "ABC"
      [] cls \in {"ABC", "FileHandler", "DataAnalyzer"} -> "object"

RECURSIVE issubclass(_, _)
issubclass(cls, base) ==
    IF cls = base THEN TRUE
    ELSE IF cls = "object" THEN FALSE
    ELSE issubclass(BaseOf(cls), base)

\* d[key] = value of a dict d
SetItem(d, key, value) == [k \in DOMAIN d \cup {key} |-> IF k = key THEN value ELSE d[k]]

\* __new__ that makes an instance at every construction.
NewAlwaysConstructs(class) ==
    [class |-> [class EXCEPT !._instance = Len(registries) + 1], ref |-> Len(registries) + 1]

\* AnalysisRegistry.__new__: the class afterwards and the reference returned
New(class) ==
    IF class._instance = NullRef
    THEN [class |-> [class EXCEPT !._instance = Len(registries) + 1], ref |-> Len(registries) + 1]
    ELSE [class |-> class, ref |-> class._instance]

\* self.get_analyzer(analyzer_id) through reference ref: the class or None
get_analyzer(ref, analyzer_id) ==
    IF analyzer_id \in DOMAIN AnalysisRegistry._analyzers
    THEN Some(AnalysisRegistry._analyzers[analyzer_id]) ELSE None

\* After 'registry = AnalysisRegistry()' at import: one instance, no analyzer.
InitRegistry ==
    /\ AnalysisRegistry = [_instance |-> 1, _analyzers |-> <<>>]
    /\ registries = <<1>>

\* The four registrations of MainWindow._register_analyzers, in their order.
OwnAnalyzers ==
    <<<<"dataset_overview", "DatasetOverviewAnalyzer">>,
      <<"basic_statistics", "BasicStatisticsAnalyzer">>,
      <<"correlation", "CorrelationAnalyzer">>,
      <<"optimization", "OptimizationAnalyzer">>>>

RECURSIVE RegisterAll(_, _, _)
RegisterAll(d, pairs, i) ==
    IF i > Len(pairs) THEN d
    ELSE RegisterAll(SetItem(d, pairs[i][1], pairs[i][2]), pairs, i + 1)

(***************************************************************************)
(* MainWindow and FileLoaderThread (src/src/ui/main_window.py).  A table   *)
(* is known by the file it was read from, its columns and its row count.   *)
(* The finished signal of a loader thread is queued for the main thread,   *)
(* which handles the queued signals one by one, also while an error box    *)
(* is open (QMessageBox.exec runs an event loop of its own).               *)
(***************************************************************************)
MaxLoads == 2

Table(file, columns, rows) == [file |-> file, columns |-> columns, rows |-> rows]

\* The files the user may pick.
FilePaths == {"a.csv", "b.csv", "header.csv", "gone.csv"}

\* FileHandler.load_file(file_path): (DataFrame, None) or (None, error message)
load_file(file_path) ==
    CASE file_path = "gone.csv" ->
            [df |-> None, error |-> Some(<<"File not found: ", file_path>>)]
      [] file_path = "notes.txt" ->
            [df |-> None, error |-> Some(<<"Unsupported file type: ", ".txt">>)]
      [] file_path = "broken.xlsx" ->
            [df |-> None, error |-> Some(<<"Error loading file: ", "BadZipFile">>)]
      [] file_path = "header.csv" ->
            [df |-> Some(Table(file_path, <<"A", "B">>, 0)), error |-> None]
      [] file_path = "a.csv" ->
            [df |-> Some(Table(file_path, <<"A", "B", "S">>, 2)), error |-> None]
      [] file_path = "b.csv" ->
            [df |-> Some(Table(file_path, <<"A", "X">>, 3)), error |-> None]

\* A FileLoaderThread as load_file makes and starts it.
FileLoaderThread(file_path, overlaps) ==
    [file_path |-> file_path, state |-> "running", overlaps |-> overlaps]

\* DataFrame.empty of a table
IsEmptyTable(table) == Len(table.columns) = 0 \/ table.rows = 0

\* self.data is None or self.data.empty
NoData(w) == w.data = None \/ IsEmptyTable(w.data[1])

\* data.drop(columns=columns_to_drop)
RECURSIVE DropFrom(_, _)
DropFrom(columns, columns_to_drop) ==
    IF columns = <<>> THEN <<>>
    ELSE IF Head(columns) \in columns_to_drop THEN DropFrom(Tail(columns), columns_to_drop)
    ELSE <<Head(columns)>> \o DropFrom(Tail(columns), columns_to_drop)

Drop(table, columns_to_drop) ==
    [table EXCEPT !.columns = DropFrom(table.columns, columns_to_drop)]

\* What the table area shows.
Placeholder == [shows |-> "No data loaded. Please upload a file.", table |-> None]
Loading == [shows |-> "Loading file...", table |-> None]
Cleared == [shows |-> "", table |-> None]
Preview(table) == [shows |-> "table", table |-> Some(table)]

\* _refresh_data_display
Refreshed(w) == IF NoData(w) THEN Placeholder ELSE Preview(w.data[1])

\* The window after MainWindow.__init__.  boxes are the error boxes that are
\* open, the one on top last, each with what its handler does when the box
\* is closed; handler keeps the handler that ran last, analysed the table
\* that the optimization clicked last gave to analyze.
InitWindow ==
    /\ window = [data |-> None, loader_thread |-> NullRef, table_layout |-> Placeholder,
                 boxes |-> <<>>, status |-> "running", handler |-> "__init__",
                 analysed |-> None]
    /\ threads = <<>>
    /\ events = <<>>

\* OnFailedLoad that also forgets the dataset the window holds.
OnFailedLoadForgets(w) ==
    [w EXCEPT !.table_layout = Cleared, !.boxes = Append(@, "_reset_table_container"),
              !.data = None, !.handler = "_on_file_loaded"]

\* _on_file_loaded up to the error box of a load that failed
OnFailedLoad(w) ==
    [w EXCEPT !.table_layout = Cleared, !.boxes = Append(@, "_reset_table_container"),
              !.handler = "_on_file_loaded"]

\* The signal's arguments tell a failure: error, no table, or an empty table.
IsFailedLoad(e) == e.error # None \/ e.df = None \/ IsEmptyTable(e.df[1])

\* _on_file_loaded(df, error) up to its return or its error box
_on_file_loaded(w, e) ==
    IF IsFailedLoad(e) THEN OnFailedLoad(w)
    ELSE [w EXCEPT !.data = e.df, !.table_layout = Preview(e.df[1]),
                   !.handler = "_on_file_loaded"]

(***************************************************************************)
(* OptimizationDialog (src/src/ui/optimization_dialog.py): five rows of    *)
(* widgets (target combo, direction buttons, constraint check box, combo   *)
(* and spin box, weight spin box) and one check box per numeric column.    *)
(***************************************************************************)
TargetRows == 5
MaxWeight == 100

\* self.numeric_columns: the numeric columns of the data, in the data's order
NumericColumns(f) == SelectSeq(f.columns, IsNumericDtype)

\* The targets the combos select, rows i.. ; dup tells that one came twice.
RECURSIVE SelectedTargets(_, _, _)
SelectedTargets(combos, i, acc) ==
    IF i > Len(combos) THEN [dup |-> FALSE, targets |-> acc]
    ELSE IF combos[i] = None THEN SelectedTargets(combos, i + 1, acc)
    ELSE IF combos[i][1] \in Range(acc) THEN [dup |-> TRUE, targets |-> acc]
    ELSE SelectedTargets(combos, i + 1, Append(acc, combos[i][1]))

\* [col for col, checkbox in self.input_checkboxes.items() if checkbox.isChecked()]
RECURSIVE CheckedInputs(_, _, _)
CheckedInputs(columns, boxes, i) ==
    IF i > Len(columns) THEN <<>>
    ELSE (IF boxes[columns[i]] THEN <<columns[i]>> ELSE <<>>)
             \o CheckedInputs(columns, boxes, i + 1)

\* _validate_inputs of the dialog without the comparison of targets and inputs.
OptimizationDialog_validate_inputs_overlap_unchecked(d) ==
    LET sel == SelectedTargets(d.target_combos, 1, <<>>)
        selected_inputs == CheckedInputs(d.numeric_columns, d.input_checkboxes, 1)
    IN  IF sel.dup THEN Some(<<"Each target variable must be unique.">>)
        ELSE IF Len(sel.targets) = 0
             THEN Some(<<"At least one target variable must be selected.">>)
        ELSE IF Len(sel.targets) > 5 THEN Some(<<"Maximum 5 target variables allowed.">>)
        ELSE IF Len(selected_inputs) = 0
             THEN Some(<<"At least one input variable must be selected.">>)
        ELSE None

\* OptimizationDialog._validate_inputs: None, or the message of the warning
OptimizationDialog_validate_inputs(d) ==
    LET sel == SelectedTargets(d.target_combos, 1, <<>>)
        selected_inputs == CheckedInputs(d.numeric_columns, d.input_checkboxes, 1)
    IN  IF sel.dup THEN Some(<<"Each target variable must be unique.">>)
        ELSE IF Len(sel.targets) = 0
             THEN Some(<<"At least one target variable must be selected.">>)
        ELSE IF Len(sel.targets) > 5 THEN Some(<<"Maximum 5 target variables allowed.">>)
        ELSE IF Len(selected_inputs) = 0
             THEN Some(<<"At least one input variable must be selected.">>)
        ELSE IF Range(sel.targets) \cap Range(selected_inputs) # {}
             THEN Some(<<"Target variables and input variables cannot overlap.">>)
        ELSE None

\* The items of a constraint combo, addItem(text, data): index 0 comes first.
ConstraintItems ==
    <<[text |-> ">", data |-> ">"], [text |-> ">=", data |-> ">="],
      [text |-> "<", data |-> "<"], [text |-> "<=", data |-> "<="],
      [text |-> "=", data |-> "=="]>>

\* constraint_combo.currentData() at current index
CurrentData(index) == ConstraintItems[index + 1].data

\* The rows whose combo selects a target, in order.
SelectedRows(d) == Positions(TargetRows, {i \in 1..TargetRows : d.target_combos[i] # None})

\* constraints[target] = {...}: a key that is there keeps its place
DictSet(items, entry) ==
    IF \E k \in DOMAIN items : items[k].key = entry.key
    THEN [k \in DOMAIN items |-> IF items[k].key = entry.key THEN entry ELSE items[k]]
    ELSE Append(items, entry)

\* for combo_box_idx in range(5), from row i on
RECURSIVE ConfiguredConstraints(_, _, _)
ConfiguredConstraints(d, i, acc) ==
    IF i > TargetRows THEN acc
    ELSE IF d.target_combos[i] # None /\ d.constraint_checkboxes[i]
         THEN ConfiguredConstraints(d, i + 1,
                  DictSet(acc, [key   |-> d.target_combos[i][1],
                                type  |-> Some(CurrentData(d.constraint_combos[i])),
                                value |-> Some(Number(d.constraint_spinboxes[i]))]))
    ELSE ConfiguredConstraints(d, i + 1, acc)

\* OptimizationDialog.get_configuration
get_configuration(d) ==
    LET rows == SelectedRows(d)
    IN  [target_variables |-> [k \in DOMAIN rows |-> d.target_combos[rows[k]][1]],
         optimization_directions |->
             [k \in DOMAIN rows |->
                 IF d.direction_buttons[rows[k]] = 0 THEN "maximize" ELSE "minimize"],
         weights |-> [k \in DOMAIN rows |-> d.weight_spinboxes[rows[k]]],
         constraints |-> ConfiguredConstraints(d, 1, <<>>),
         input_variables |-> CheckedInputs(d.numeric_columns, d.input_checkboxes, 1)]

\* OptimizationDialog(data): the widgets as _init_ui leaves them.  A target
\* combo holds its current data, a constraint combo its current index, a
\* direction group its checked id.
OptimizationDialog(f) ==
    [status |-> "open",
     data |-> f,
     numeric_columns |-> NumericColumns(f),
     target_combos |-> [i \in 1..TargetRows |-> None],
     direction_buttons |-> [i \in 1..TargetRows |-> 0],
     constraint_checkboxes |-> [i \in 1..TargetRows |-> i \in {2, 3, 4}],
     constraint_combos |-> [i \in 1..TargetRows |-> 0],
     constraint_spinboxes |-> [i \in 1..TargetRows |-> IF i = 3 THEN 1 ELSE 0],
     weight_spinboxes |-> [i \in 1..TargetRows |-> 1],
     input_checkboxes |-> [c \in Range(NumericColumns(f)) |-> FALSE],
     warning |-> None,
     config |-> None]

\* No dialog is open.
NoDialog == [status |-> "none"]

\* The application when a call of analyze is looked at by itself.
InitApp == InitRegistry /\ InitWindow /\ dialog = NoDialog

(***************************************************************************)
(* The calls of analyze that the model explores.                           *)
(***************************************************************************)
DefaultTopN == 10

Row(a, b) == [c \in {"A", "B", "X", "S"} |->
                CASE c = "A" -> a [] c = "B" -> b [] c = "X" -> 7 [] c = "S" -> "s"]

\* Rows that tie on A, on B, on both (a row repeated), and on neither.
RowsOfData == {Row(0, 1), Row(1, 0), Row(1, 1), Row(2, 1)}

\* A frame as a file load makes it: a RangeIndex 0, 1, ...
Frame(rows) == [columns |-> DataColumns, index |-> [i \in 1..Len(rows) |-> i - 1], rows |-> rows]

Frames == UNION {{Frame(rows) : rows \in [1..n -> RowsOfData]} : n \in 1..MaxRows}

\* A frame with a numeric Pass column.
PassFrame ==
    [columns |-> <<"Pass">> \o DataColumns,
     index   |-> <<0, 1>>,
     rows    |-> [i \in 1..2 |-> [c \in {"Pass", "A", "B", "X", "S"} |->
                    CASE c = "Pass" -> 10 + i [] c = "A" -> i [] c = "B" -> 2 - i
                      [] c = "X" -> 7 [] c = "S" -> "s"]]]

\* The same two rows with a column named 'pass', and with both spellings.
LowerPassFrame ==
    [columns |-> <<"pass">> \o DataColumns,
     index   |-> <<0, 1>>,
     rows    |-> [i \in 1..2 |-> [c \in {"pass", "A", "B", "X", "S"} |->
                    CASE c = "pass" -> 20 + i [] c = "A" -> i [] c = "B" -> 2 - i
                      [] c = "X" -> 7 [] c = "S" -> "s"]]]

BothPassFrame ==
    [columns |-> <<"pass", "Pass">> \o DataColumns,
     index   |-> <<0, 1>>,
     rows    |-> [i \in 1..2 |-> [c \in {"pass", "Pass", "A", "B", "X", "S"} |->
                    CASE c = "pass" -> 20 + i [] c = "Pass" -> 10 + i [] c = "A" -> i
                      [] c = "B" -> 2 - i [] c = "X" -> 7 [] c = "S" -> "s"]]]

\* The same two rows with a numeric column named 'Row Index'.
RowIndexFrame ==
    [columns |-> <<"Row Index">> \o DataColumns,
     index   |-> <<0, 1>>,
     rows    |-> [i \in 1..2 |-> [c \in {"Row Index", "A", "B", "X", "S"} |->
                    CASE c = "Row Index" -> 30 + i [] c = "A" -> i [] c = "B" -> 2 - i
                      [] c = "X" -> 7 [] c = "S" -> "s"]]]

\* The dataset of the documented example: Pass, Yield, Cost, X1.
ExampleRow(p, y, c, x) ==
    [col \in {"Pass", "Yield", "Cost", "X1"} |->
        CASE col = "Pass" -> p [] col = "Yield" -> y [] col = "Cost" -> c [] col = "X1" -> x]

ExampleFrame ==
    [columns |-> <<"Pass", "Yield", "Cost", "X1">>,
     index   |-> <<0, 1, 2>>,
     rows    |-> <<ExampleRow(1, 80, 50, 3), ExampleRow(2, 90, 40, 5), ExampleRow(3, 70, 60, 2)>>]

Constraint(key, type, value) == [key |-> key, type |-> Some(type), value |-> Some(value)]

Request(tv, dirs, cons, w, inputs, n) ==
    [target_variables |-> tv, optimization_directions |-> dirs, constraints |-> cons,
     weights |-> w, input_variables |-> inputs, top_n |-> n]

Directions(n) == [1..n -> {"maximize", "minimize"}]

\* Valid requests on all rows: every direction and weight of one or two targets.
ScoreRequests ==
    UNION {{Request(tv, dirs, <<>>, w, <<"X">>, DefaultTopN) :
                dirs \in Directions(Len(tv)),
                w \in {v \in [1..Len(tv) -> 0..2] : SumSeq(v, 1) > 0}} :
           tv \in {<<"A">>, <<"A", "B">>}}

\* Valid requests that filter: up to one constraint per target, in either order.
Comparators == {">", ">=", "<", "<=", "==", "=", "!="}
ConstraintsOnA == {Constraint("A", op, Number(1)) : op \in Comparators}
ConstraintsOnB == {Constraint("B", op, Number(1)) : op \in {">=", "=="}}
                      \cup {Constraint("B", "<", Text)}

ConstraintDicts ==
    {<<a>> : a \in ConstraintsOnA} \cup {<<b>> : b \in ConstraintsOnB}
        \cup {<<a, b>> : a \in ConstraintsOnA, b \in ConstraintsOnB}
        \cup {<<b, a>> : a \in ConstraintsOnA, b \in ConstraintsOnB}

FilterRequests ==
    {Request(<<"A", "B">>, <<"maximize", "minimize">>, cons, <<1, 1>>, <<"X">>, DefaultTopN) :
        cons \in ConstraintDicts}

\* Valid requests that ask for fewer rows than the data may hold.
TopNRequests ==
    {Request(<<"A", "B">>, <<"maximize", "maximize">>, cons, <<1, 1>>, <<"X">>, n) :
        cons \in {<<>>, <<Constraint("A", ">=", Number(1))>>}, n \in {1, 2}}

\* The documented example: Yield up, Cost down, weights 1 and 1, top_n 3,
\* without a constraint and with Cost < 45.
ExampleRequests ==
    {Request(<<"Yield", "Cost">>, <<"maximize", "minimize">>, cons, <<1, 1>>, <<"X1">>, 3) :
        cons \in {<<>>, <<Constraint("Cost", "<", Number(45))>>}}

\* Requests that break the rules of _validate_inputs, alone and together,
\* or that end in an exception or in an empty filter; and valid ones.
SixTargets == <<"A", "B", "A", "B", "A", "B">>

CheckedRequests ==
    {Request(tv, dirs, cons, w, inputs, DefaultTopN) :
        tv \in {<<>>, <<"A">>, <<"A", "B">>, <<"Z">>, <<"S">>, SixTargets},
        dirs \in {<<"maximize">>, <<"maximize", "minimize">>, <<"up">>},
        w \in {<<1>>, <<0>>, <<-1>>, <<1, 1>>, <<0, 0>>},
        cons \in {<<>>, <<Constraint("Q", ">", Number(0))>>, <<Constraint("B", ">=", Number(1))>>,
                  <<Constraint("A", ">", Text)>>, <<Constraint("A", ">", Number(5))>>},
        inputs \in {<<>>, <<"X">>, <<"Z">>, <<"S">>, <<"A">>, <<"Pass">>}}

CheckedFrames ==
    {Frame(<<>>), PassFrame, LowerPassFrame, BothPassFrame}
        \cup UNION {{Frame(rows) : rows \in [1..n -> {Row(1, 0), Row(2, 1)}]} : n \in 1..MaxRows}

\* The caller holds a DataFrame: the only object when analyze is called.
CallWith(frames, requests) ==
    /\ data0 \in frames
    /\ req \in requests
    /\ heap = <<data0>>
    /\ data = 1
    /\ current = 1
    /\ parked = <<Running>>

\* analyze(None, ...)
CallWithNone(requests) ==
    /\ data0 = Freed
    /\ req \in requests
    /\ heap = <<>>
    /\ data = NullRef
    /\ current = 1
    /\ parked = <<Running>>

\* Calls in sequence on one instance, and invocations that interleave.
MaxCalls == 3
MaxThreads == 2

\* Data with two rows that tie on A, and data without ties.
CallFrames == {Frame(<<Row(1, 0), Row(1, 0), Row(2, 1)>>), Frame(<<Row(0, 1), Row(1, 0)>>)}

\* A success on all rows, a success that keeps one of the rows a filter
\* leaves, and a validation failure.
CallRequests ==
    {Request(<<"A", "B">>, <<"maximize", "minimize">>, <<>>, <<1, 1>>, <<"X">>, DefaultTopN),
     Request(<<"A">>, <<"minimize">>, <<Constraint("A", "<=", Number(1))>>, <<1>>, <<"X">>, 1),
     Request(<<"A">>, <<"up">>, <<>>, <<1>>, <<"X">>, DefaultTopN)}

\* Requests on the same targets that differ in directions, weights,
\* constraints and top_n; the last one keeps no row.
ThreadRequests ==
    {Request(<<"A", "B">>, <<"maximize", "minimize">>, <<>>, <<1, 1>>, <<"X">>, DefaultTopN),
     Request(<<"A", "B">>, <<"minimize", "minimize">>, <<Constraint("A", ">=", Number(1))>>,
             <<1, 2>>, <<"X">>, 1),
     Request(<<"A", "B">>, <<"maximize", "maximize">>, <<Constraint("A", ">", Number(5))>>,
             <<1, 1>>, <<"X">>, DefaultTopN)}

\* The frame of an invocation that has not started: analyze(d, r...) with d at ref.
Start(ref, d, r) ==
    [pc |-> "validate_data", data |-> ref, data0 |-> d, req |-> r, df_filtered |-> NullRef,
     scores |-> <<>>, top_solutions |-> NullRef, called |-> {}, result |-> Pending]

\* n invocations, each with a DataFrame object of its own; the first one runs.
CallsOf(n, frames, requests) ==
    \E ds \in [1..n -> frames], rs \in [1..n -> requests] :
        /\ heap = ds
        /\ data = 1
        /\ data0 = ds[1]
        /\ req = rs[1]
        /\ current = 1
        /\ parked = [t \in 1..n |-> IF t = 1 THEN Running ELSE Start(t, ds[t], rs[t])]

\* No local is bound and nothing has run.
InitLocals ==
    /\ pc = "validate_data"
    /\ df_filtered = NullRef
    /\ scores = <<>>
    /\ top_solutions = NullRef
    /\ called = {}
    /\ result = Pending
    /\ self = Instance
    /\ argsort = {}
    /\ InitApp

Init ==
    InitLocals /\ (\/ CallWith(Frames, ScoreRequests \cup TopNRequests)
                   \/ CallWith({ExampleFrame}, ExampleRequests))

InitFilter == InitLocals /\ CallWith(Frames, FilterRequests)

InitValidate ==
    InitLocals /\ (CallWith(CheckedFrames, CheckedRequests) \/ CallWithNone(CheckedRequests))

\* Constraints on the selected target A whose 'type' is absent, one of the
\* documented comparators, '=' or no comparator at all, and whose 'value'
\* is absent, a number or a text; with and without a constraint on B.
LooseTypes == {None} \cup {Some(op) : op \in Comparators \cup {"", "~"}}
LooseValues == {None, Some(Number(0)), Some(Number(1)), Some(Text)}

LooseConstraints ==
    {[key |-> "A", type |-> t, value |-> v] : t \in LooseTypes, v \in LooseValues}

LooseRequests ==
    {Request(<<"A", "B">>, <<"maximize", "minimize">>, cons, <<1, 1>>, <<"X">>, DefaultTopN) :
        cons \in {<<a>> : a \in LooseConstraints}
                 \cup {<<a, Constraint("B", ">=", Number(1))>> : a \in LooseConstraints}}

InitLoose == InitLocals /\ CallWith(Frames, LooseRequests)

\* Valid requests with every top_n from below -MaxRows to above MaxRows.
AnyTopNRequests ==
    {Request(<<"A", "B">>, <<"maximize", "maximize">>, cons, <<1, 1>>, <<"X">>, n) :
        cons \in {<<>>, <<Constraint("A", ">=", Number(1))>>},
        n \in (0 - MaxRows - 1)..(MaxRows + 1)}

InitTopN == InitLocals /\ CallWith(Frames, AnyTopNRequests)

\* One target and one input among the numeric columns, the columns that
\* name rows among them, on data with and without such columns.
IdentifierColumns == {"A", "B", "Pass", "pass", "Row Index"}

IdentifierRequests ==
    UNION {{Request(<<t>>, <<"maximize">>, cons, <<1>>, <<x>>, DefaultTopN) :
                x \in IdentifierColumns \ {"B"},
                cons \in {<<>>, <<Constraint(t, ">=", Number(2))>>}} :
           t \in IdentifierColumns}

IdentifierFrames ==
    {PassFrame, LowerPassFrame, BothPassFrame, RowIndexFrame, Frame(<<Row(1, 0), Row(2, 1)>>)}

InitIdentifier == InitLocals /\ CallWith(IdentifierFrames, IdentifierRequests)

\* Requests with constraints on a selected target (A), on a column that is
\* selected or not (B), and on a name that is no column (Q).
KeyedConstraintDicts ==
    LET a == Constraint("A", ">=", Number(1))
        b == Constraint("B", "==", Number(0))
        q == Constraint("Q", ">", Number(0))
    IN  {<<>>, <<a>>, <<b>>, <<q>>, <<a, b>>, <<b, a>>, <<q, a>>, <<a, q>>}

KeyedRequests ==
    {Request(<<"A">>, <<"maximize">>, cons, <<1>>, <<"X">>, DefaultTopN) :
        cons \in KeyedConstraintDicts}
    \cup {Request(<<"A", "B">>, <<"maximize", "minimize">>, cons, <<1, 1>>, <<"X">>,
                  DefaultTopN) : cons \in KeyedConstraintDicts}

\* A call of analyze, or a call of the helper _apply_constraints itself.
InitConstraints ==
    /\ pc \in {"validate_data", "_apply_constraints"}
    /\ df_filtered = NullRef
    /\ scores = <<>>
    /\ top_solutions = NullRef
    /\ called = {}
    /\ result = Pending
    /\ self = Instance
    /\ argsort = {}
    /\ InitApp
    /\ CallWith(Frames, KeyedRequests)

InitCalls == InitLocals /\ CallsOf(MaxCalls, CallFrames, CallRequests)

InitThreads == InitLocals /\ CallsOf(MaxThreads, CallFrames, ThreadRequests)

(***************************************************************************)
(* The invocations of one process.                                         *)
(***************************************************************************)
\* The frame of the running invocation: its arguments and locals.
Locals ==
    [pc |-> pc, data |-> data, data0 |-> data0, req |-> req, df_filtered |-> df_filtered,
     scores |-> scores, top_solutions |-> top_solutions, called |-> called,
     result |-> result]

\* The objects the other invocations and their callers refer to.
OtherRefs ==
    UNION {{parked[t].data, parked[t].df_filtered, parked[t].top_solutions} :
               t \in DOMAIN parked \ {current}}

\* Resumed with scores kept in one place for all invocations: an invocation
\* goes on with the scores array that was written last, when it fits.
ResumedWithLastScores(t) ==
    [parked[t] EXCEPT !.scores = IF Len(@) = Len(scores) THEN scores ELSE @]

\* The frame invocation t goes on with.
Resumed(t) == parked[t]

\* The running invocation is set aside and invocation t runs.
Switch(t) ==
    /\ t # current
    /\ parked' = [parked EXCEPT ![current] = Locals, ![t] = Running]
    /\ current' = t
    /\ pc' = Resumed(t).pc
    /\ data' = Resumed(t).data
    /\ data0' = Resumed(t).data0
    /\ req' = Resumed(t).req
    /\ df_filtered' = Resumed(t).df_filtered
    /\ scores' = Resumed(t).scores
    /\ top_solutions' = Resumed(t).top_solutions
    /\ called' = Resumed(t).called
    /\ result' = Resumed(t).result
    /\ UNCHANGED <<heap, self, argsort>>
    /\ UNCHANGED app

\* argsort(kind='quicksort') of the score column: an order that is descending
\* by score; the order it gave for these keys before, when it has seen them.
ArgsortSeen(keys) == {e \in argsort : e[1] = keys}

\* ArgsortOrders that may order equal keys differently from call to call.
ArgsortOrdersUnrepeatable(f, col) == SortOrders(f, col)

ArgsortOrders(f, col) ==
    LET keys == ColumnValues(f, col)
    IN  IF ArgsortSeen(keys) # {} THEN {e[2] : e \in ArgsortSeen(keys)}
        ELSE SortOrders(f, col)

(***************************************************************************)
(* analyze, block by block.                                                *)
(***************************************************************************)
Return(r) == result' = r /\ pc' = "done"

\* lines 51-59
ValidateData ==
    /\ pc = "validate_data"
    /\ LET e == validate_data(heap, data)
       IN  IF e # None THEN Return(Failure(e[1]))
           ELSE pc' = "validate_inputs" /\ UNCHANGED result
    /\ UNCHANGED <<data, data0, req, heap, df_filtered, scores, top_solutions, called,
                 self, argsort, current, parked>>
    /\ UNCHANGED app

\* lines 61-73
ValidateInputs ==
    /\ pc = "validate_inputs"
    /\ called' = called \cup {"_validate_inputs"}
    /\ LET e == _validate_inputs(heap[data], req)
       IN  IF e # None THEN Return(Failure(e[1]))
           ELSE pc' = "check_lengths" /\ UNCHANGED result
    /\ UNCHANGED <<data, data0, req, heap, df_filtered, scores, top_solutions,
                 self, argsort, current, parked>>
    /\ UNCHANGED app

\* lines 75-90
CheckLengths ==
    /\ pc = "check_lengths"
    /\ LET num_targets == Len(req.target_variables)
       IN  IF Len(req.optimization_directions) # num_targets
               THEN Return(Failure(<<"Mismatch: ", num_targets, " targets but ",
                                     Len(req.optimization_directions), " directions.">>))
           ELSE IF Len(req.weights) # num_targets
               THEN Return(Failure(<<"Mismatch: ", num_targets, " targets but ",
                                     Len(req.weights), " weights.">>))
           ELSE pc' = "apply_constraints" /\ UNCHANGED result
    /\ UNCHANGED <<data, data0, req, heap, df_filtered, scores, top_solutions, called,
                 self, argsort, current, parked>>
    /\ UNCHANGED app

\* lines 92-104
ApplyConstraints ==
    /\ pc = "apply_constraints"
    /\ called' = called \cup {"_apply_constraints"}
    /\ LET df == CopyFrame(heap, data)
           r  == _apply_constraints(df.heap, df.ref, req.target_variables, req.constraints)
       IN  IF r.raised
               THEN /\ Return(Caught(<<"TypeError">>))
                    /\ heap' = Collect(r.heap, {data} \cup OtherRefs)
                    /\ UNCHANGED df_filtered
           ELSE IF IsEmptyFrame(r.heap[r.ref])
               THEN /\ Return(Failure(<<"No rows satisfy the specified constraints.">>))
                    /\ heap' = Collect(r.heap, {data} \cup OtherRefs)
                    /\ UNCHANGED df_filtered
           ELSE /\ df_filtered' = r.ref
                /\ heap' = Collect(r.heap, {data, r.ref} \cup OtherRefs)
                /\ pc' = "calculate_scores"
                /\ UNCHANGED result
    /\ UNCHANGED <<data, data0, req, scores, top_solutions,
                 self, argsort, current, parked>>
    /\ UNCHANGED app

\* lines 106-109
CalculateScores ==
    /\ pc = "calculate_scores"
    /\ called' = called \cup {"_calculate_scores"}
    /\ IF ScoresRaise(heap[df_filtered])
           THEN /\ Return(Caught(<<"zero-size array to reduction operation minimum which has no identity">>))
                /\ heap' = Collect(heap, {data} \cup OtherRefs)
                /\ UNCHANGED scores
       ELSE /\ scores' = _calculate_scores(heap[df_filtered], req.target_variables,
                                           req.optimization_directions, req.weights)
            /\ pc' = "sort"
            /\ UNCHANGED <<heap, result>>
    /\ UNCHANGED <<data, data0, req, df_filtered, top_solutions,
                 self, argsort, current, parked>>
    /\ UNCHANGED app

\* lines 111-119
SortAndTake ==
    /\ pc = "sort"
    /\ called' = called \cup {"sort_values"}
    /\ LET copy   == CopyFrame(heap, df_filtered)
           scored == [copy.heap EXCEPT ![copy.ref] = SetColumn(@, ScoreColumn, scores)]
       IN  \E p \in ArgsortOrders(scored[copy.ref], ScoreColumn) :
               LET df_sorted == Alloc(scored, Take(scored[copy.ref], p))
                   top == Alloc(df_sorted.heap, DfHead(df_sorted.heap[df_sorted.ref], req.top_n))
               IN  /\ heap' = Collect(top.heap, {data, copy.ref, top.ref} \cup OtherRefs)
                   /\ df_filtered' = copy.ref
                   /\ top_solutions' = top.ref
                   /\ argsort' = argsort \cup {<<scores, p>>}
    /\ pc' = "build_result"
    /\ UNCHANGED <<data, data0, req, scores, result, self, current, parked>>
    /\ UNCHANGED app

\* lines 121-157
BuildResult ==
    /\ pc = "build_result"
    /\ LET output_columns == req.input_variables \o req.target_variables \o <<ScoreColumn>>
           selected == SelectColumns(heap[top_solutions], output_columns)
           columns  == heap[data].columns
           name     == IdentifierName(columns)
           result_df == RoundFrame(InsertFirst(selected, name,
                                               IdentifierValues(columns, heap[top_solutions])))
       IN  IF InsertRaises(selected, name)
               THEN Return(Caught(<<"cannot insert ", name, ", already exists">>))
                    /\ UNCHANGED called
           ELSE /\ called' = called \cup {"_create_summary"}
                /\ Return(Success(result_df,
                                  _create_summary(NRows(heap[data]), NRows(heap[df_filtered]),
                                                  NRows(result_df), req.target_variables,
                                                  req.input_variables)))
    /\ heap' = Collect(heap, {data} \cup OtherRefs)
    /\ UNCHANGED <<data, data0, req, df_filtered, scores, top_solutions,
                 self, argsort, current, parked>>
    /\ UNCHANGED app

Next ==
    \/ ValidateData
    \/ ValidateInputs
    \/ CheckLengths
    \/ ApplyConstraints
    \/ CalculateScores
    \/ SortAndTake
    \/ BuildResult

Spec == Init /\ [][Next]_vars

SpecFilter == InitFilter /\ [][Next]_vars

SpecValidate == InitValidate /\ [][Next]_vars

SpecLoose == InitLoose /\ [][Next]_vars

SpecTopN == InitTopN /\ [][Next]_vars

SpecIdentifier == InitIdentifier /\ [][Next]_vars

\* self._apply_constraints(data, target_variables, constraints), called by
\* itself: df_filtered is the frame it returns.
ApplyConstraintsDirect ==
    /\ pc = "_apply_constraints"
    /\ called' = called \cup {"_apply_constraints"}
    /\ LET r == _apply_constraints(heap, data, req.target_variables, req.constraints)
       IN  IF r.raised
               THEN /\ result' = [status |-> "raised", exception |-> <<"TypeError">>]
                    /\ heap' = Collect(r.heap, {data} \cup OtherRefs)
                    /\ UNCHANGED df_filtered
           ELSE /\ df_filtered' = r.ref
                /\ heap' = Collect(r.heap, {data, r.ref} \cup OtherRefs)
                /\ UNCHANGED result
    /\ pc' = "done"
    /\ UNCHANGED <<data, data0, req, scores, top_solutions, self, argsort, current, parked>>
    /\ UNCHANGED app

NextConstraints == Next \/ ApplyConstraintsDirect

SpecConstraints == InitConstraints /\ [][NextConstraints]_vars

\* The caller calls analyze again when the call before has returned.
CallAgain ==
    /\ pc = "done"
    /\ current < Len(parked)
    /\ Switch(current + 1)

NextCalls == Next \/ CallAgain

SpecCalls == InitCalls /\ [][NextCalls]_vars

\* The scheduler lets another invocation that has not returned run.
Preempt ==
    \E t \in DOMAIN parked :
        /\ t # current
        /\ parked[t].pc # "done"
        /\ Switch(t)

NextThreads == Next \/ Preempt

SpecThreads == InitThreads /\ [][NextThreads]_vars

(***************************************************************************)
(* FileHandler._infer_data_types (src/src/file_handler.py).  The table it  *)
(* is given is a frame whose columns carry a dtype; a cell is missing      *)
(* (NaN, None), a string (its characters) or a number.  The call is        *)
(* followed with the variables of a call: data is the argument, heap holds *)
(* the caller's table and the copy, result the table returned.             *)
(***************************************************************************)
MaxCells == 5

NaN == [kind |-> "null", text |-> <<>>, n |-> 0]
StrCell(text) == [kind |-> "str", text |-> text, n |-> 0]
NumCell(n) == [kind |-> "num", text |-> <<>>, n |-> n]

\* pd.api.types.is_numeric_dtype
is_numeric_dtype(dtype) == dtype \in {"int64", "float64", "bool"}

Digits == <<"0", "1", "2", "3", "4", "5", "6", "7", "8", "9">>
IsDigit(ch) == \E d \in DOMAIN Digits : Digits[d] = ch
DigitValue(ch) == (CHOOSE d \in DOMAIN Digits : Digits[d] = ch) - 1

\* The number a run of decimal digits writes, None when a character is no digit.
RECURSIVE ParseDigits(_, _, _)
ParseDigits(text, i, acc) ==
    IF i > Len(text) THEN Some(acc)
    ELSE IF ~IsDigit(text[i]) THEN None
    ELSE ParseDigits(text, i + 1, 10 * acc + DigitValue(text[i]))

\* The number a string writes: an optional sign and at least one digit.
ParseNumber(text) ==
    IF Len(text) = 0 THEN None
    ELSE IF text[1] = "-"
         THEN (IF Len(text) = 1 \/ ParseDigits(text, 2, 0) = None THEN None
               ELSE Some(0 - ParseDigits(text, 2, 0)[1]))
    ELSE ParseDigits(text, 1, 0)

\* pd.to_numeric(x, errors='coerce') of one cell: what does not parse is NaN
to_numeric(cell) ==
    CASE cell.kind = "num"  -> cell
      [] cell.kind = "null" -> NaN
      [] cell.kind = "str"  -> IF ParseNumber(cell.text) = None THEN NaN
                               ELSE NumCell(ParseNumber(cell.text)[1])

RECURSIVE CountNotNa(_, _)
CountNotNa(series, i) ==
    IF i > Len(series) THEN 0
    ELSE (IF series[i].kind # "null" THEN 1 ELSE 0) + CountNotNa(series, i + 1)

\* ConversionRateMet with > for >= : exactly 80% is not enough.
ConversionRateMetStrict(converted_non_null, original_non_null) ==
    FLess(<<4, 5>>, Frac(converted_non_null, original_non_null))

\* conversion_rate >= 0.8: the quotient of two counts against the double
\* 0.8.  The quotient 4k/5k is the double 0.8 itself, and no quotient of
\* column counts below 4/5 rounds up to it, so the comparison is exact.
ConversionRateMet(converted_non_null, original_non_null) ==
    FLeq(<<4, 5>>, Frac(converted_non_null, original_non_null))

\* The dtype of a series of numbers and NaN.
NumericDtype(series) ==
    IF \E i \in DOMAIN series : series[i].kind = "null" THEN "float64" ELSE "int64"

\* The body of the for loop for column col of frame f (the copy), in place.
InferColumn(f, col) ==
    LET numeric_series == [i \in 1..NRows(f) |-> to_numeric(f.rows[i][col])]
        original_non_null == CountNotNa(ColumnValues(f, col), 1)
        converted_non_null == CountNotNa(numeric_series, 1)
    IN  IF is_numeric_dtype(f.dtypes[col]) THEN f
        ELSE IF converted_non_null = 0 THEN f
        ELSE IF ~(original_non_null > 0) THEN f
        ELSE IF ~ConversionRateMet(converted_non_null, original_non_null) THEN f
        ELSE [f EXCEPT !.rows = [i \in 1..NRows(f) |->
                                    [f.rows[i] EXCEPT ![col] = numeric_series[i]]],
                       !.dtypes = [@ EXCEPT ![col] = NumericDtype(numeric_series)]]

\* for col in df.columns, from column i on
RECURSIVE InferLoop(_, _)
InferLoop(f, i) ==
    IF i > Len(f.columns) THEN f ELSE InferLoop(InferColumn(f, f.columns[i]), i + 1)

\* The call: [heap, ref]; ref is the returned table's object.
_infer_data_types(h, ref) ==
    LET df == CopyFrame(h, ref)
    IN  [heap |-> [df.heap EXCEPT ![df.ref] = InferLoop(@, 1)], ref |-> df.ref]

\* The cells of a column as a file gives them: missing, "1", "-2", "1x", "" and 3.
FileCells ==
    {NaN, StrCell(<<"1">>), StrCell(<<"-", "2">>), StrCell(<<"1", "x">>), StrCell(<<>>),
     NumCell(3)}

\* A table with an object column T, a float column N with a NaN in its
\* first row, and an integer column K.
FileFrame(cells) ==
    [columns |-> <<"T", "N", "K">>,
     index   |-> [i \in 1..Len(cells) |-> i - 1],
     rows    |-> [i \in 1..Len(cells) |->
                    [c \in {"T", "N", "K"} |->
                        CASE c = "T" -> cells[i]
                          [] c = "N" -> IF i = 1 THEN NaN ELSE NumCell(i)
                          [] c = "K" -> NumCell(10 * i)]],
     dtypes  |-> [c \in {"T", "N", "K"} |->
                    CASE c = "T" -> "object" [] c = "N" -> "float64" [] c = "K" -> "int64"]]

\* The tables of n rows.
FileFrames(n) == {FileFrame(cells) : cells \in [1..n -> FileCells]}

InitInfer ==
    /\ pc = "_infer_data_types"
    /\ df_filtered = NullRef
    /\ scores = <<>>
    /\ top_solutions = NullRef
    /\ called = {}
    /\ result = Pending
    /\ self = Instance
    /\ argsort = {}
    /\ InitApp
    /\ req = <<>>
    /\ \E n \in 0..MaxCells : data0 \in FileFrames(n)
    /\ heap = <<data0>>
    /\ data = 1
    /\ current = 1
    /\ parked = <<Running>>

\* df = FileHandler._infer_data_types(df)
InferDataTypes ==
    /\ pc = "_infer_data_types"
    /\ LET r == _infer_data_types(heap, data)
       IN  /\ heap' = r.heap
           /\ result' = [status |-> "returned", ref |-> r.ref]
    /\ pc' = "done"
    /\ UNCHANGED <<data, data0, req, df_filtered, scores, top_solutions, called,
                 self, argsort, current, parked>>
    /\ UNCHANGED app

NextInfer == InferDataTypes

SpecInfer == InitInfer /\ [][NextInfer]_vars

(***************************************************************************)
(* The application by itself: no call of analyze is under way.             *)
(***************************************************************************)
InitIdle ==
    /\ pc = "idle"
    /\ data = NullRef
    /\ data0 = Freed
    /\ req = <<>>
    /\ heap = <<>>
    /\ df_filtered = NullRef
    /\ scores = <<>>
    /\ top_solutions = NullRef
    /\ called = {}
    /\ result = Pending
    /\ self = Instance
    /\ argsort = {}
    /\ current = 1
    /\ parked = <<Running>>

\* The application after start-up, before the user does anything.
InitStarted == InitIdle /\ InitApp

\* The variables of a call but result, which keeps the outcome of the method
\* of the application that ran last.
frame == <<pc, data, data0, req, heap, df_filtered, scores, top_solutions, called,
           self, argsort, current, parked>>

(***************************************************************************)
(* The uses of the registry.  result keeps the call made last: its         *)
(* arguments, whether the id was known before, and how it ended.           *)
(***************************************************************************)
\* The ids and classes some module registers besides the window's own four.
OtherIds == {"optimization", "custom"}
OtherClasses == {"OptimizationAnalyzer", "CorrelationAnalyzer", "FileHandler", "DataAnalyzer"}

\* r = AnalysisRegistry()
Construct ==
    /\ Len(registries) < MaxRegistries
    /\ LET n == New(AnalysisRegistry)
       IN  /\ AnalysisRegistry' = n.class
           /\ registries' = Append(registries, n.ref)
           /\ result' = [status |-> "returned", call |-> <<"__new__">>, value |-> n.ref]
    /\ UNCHANGED <<frame, window, threads, events, dialog>>

\* registries[k].register(analyzer_id, analyzer_class)
Register(k, analyzer_id, analyzer_class) ==
    /\ LET existed == analyzer_id \in DOMAIN AnalysisRegistry._analyzers
           made == <<"register", registries[k], analyzer_id, analyzer_class>>
       IN  IF ~issubclass(analyzer_class, "BaseAnalyzer")
           THEN /\ result' = [status |-> "raised", call |-> made, existed |-> existed,
                              exception |-> <<"ValueError",
                                              "Analyzer class must inherit from BaseAnalyzer">>]
                /\ UNCHANGED AnalysisRegistry
           ELSE /\ AnalysisRegistry' =
                       [AnalysisRegistry EXCEPT
                           !._analyzers = SetItem(@, analyzer_id, analyzer_class)]
                /\ result' = [status |-> "returned", call |-> made, existed |-> existed]
    /\ UNCHANGED <<frame, registries, window, threads, events, dialog>>

\* registries[k].get_analyzer(analyzer_id)
GetAnalyzer(k, analyzer_id) ==
    /\ result' = [status |-> "returned",
                  call |-> <<"get_analyzer", registries[k], analyzer_id>>,
                  value |-> get_analyzer(registries[k], analyzer_id)]
    /\ UNCHANGED <<frame, app>>

\* MainWindow._register_analyzers: four calls of register on the global registry
RegisterAnalyzers ==
    /\ AnalysisRegistry' =
           [AnalysisRegistry EXCEPT !._analyzers = RegisterAll(@, OwnAnalyzers, 1)]
    /\ result' = [status |-> "returned", call |-> <<"_register_analyzers">>]
    /\ UNCHANGED <<frame, registries, window, threads, events, dialog>>

NextRegistry ==
    \/ Construct
    \/ \E k \in DOMAIN registries, analyzer_id \in OtherIds, analyzer_class \in OtherClasses :
           Register(k, analyzer_id, analyzer_class)
    \/ \E k \in DOMAIN registries, analyzer_id \in OtherIds \cup {"correlation"} :
           GetAnalyzer(k, analyzer_id)
    \/ RegisterAnalyzers

SpecRegistry == InitStarted /\ [][NextRegistry]_vars

(***************************************************************************)
(* The optimization dialog in the user's hands: the user sets widgets,     *)
(* presses Run (a warning, or the dialog is accepted) or Cancel; after an  *)
(* accepted dialog the window reads get_configuration.                     *)
(***************************************************************************)
\* The tables a dialog is opened on.
DialogFrames == {Frame(<<Row(1, 0), Row(2, 1)>>), PassFrame}

\* What the user sets in the rows: the rows the user touches and the values.
TargetChoices(i) ==
    CASE i \in 1..3 -> {None, Some("A"), Some("B")}
      [] i = 4 -> {None}
      [] i = 5 -> {None, Some("X")}
WeightChoices == {0, 1, MaxWeight}
InputChoices == {"A", "B", "X"}

\* The dialog was opened on a table; nothing else has happened.
InitDialog ==
    /\ InitIdle
    /\ InitRegistry
    /\ InitWindow
    /\ \E f \in DialogFrames : dialog = OptimizationDialog(f)

\* target_combos[i].setCurrentIndex: the user picks an item of the combo
SelectTarget(i, target) ==
    /\ dialog.status = "open"
    /\ IF target = None THEN TRUE ELSE target[1] \in Range(dialog.numeric_columns)
    /\ dialog' = [dialog EXCEPT !.target_combos[i] = target, !.warning = None]
    /\ UNCHANGED <<call, AnalysisRegistry, registries, window, threads, events>>

\* The user checks Max (id 0) or Min (id 1) of row 1.
CheckDirection(id) ==
    /\ dialog.status = "open"
    /\ dialog' = [dialog EXCEPT !.direction_buttons[1] = id, !.warning = None]
    /\ UNCHANGED <<call, AnalysisRegistry, registries, window, threads, events>>

\* The user toggles the constraint check box of row i.
ToggleConstraint(i) ==
    /\ dialog.status = "open"
    /\ dialog' = [dialog EXCEPT !.constraint_checkboxes[i] = ~@, !.warning = None]
    /\ UNCHANGED <<call, AnalysisRegistry, registries, window, threads, events>>

\* The user picks a comparator in row 1 (its combo is enabled when checked).
SelectComparator(index) ==
    /\ dialog.status = "open"
    /\ dialog.constraint_checkboxes[1]
    /\ dialog' = [dialog EXCEPT !.constraint_combos[1] = index, !.warning = None]
    /\ UNCHANGED <<call, AnalysisRegistry, registries, window, threads, events>>

\* The user sets the weight of row 1; the spin box keeps it in its range.
SetWeight(weight) ==
    /\ dialog.status = "open"
    /\ weight \in 0..MaxWeight
    /\ dialog' = [dialog EXCEPT !.weight_spinboxes[1] = weight, !.warning = None]
    /\ UNCHANGED <<call, AnalysisRegistry, registries, window, threads, events>>

\* The user toggles the check box of an input variable.
ToggleInput(col) ==
    /\ dialog.status = "open"
    /\ col \in DOMAIN dialog.input_checkboxes
    /\ dialog' = [dialog EXCEPT !.input_checkboxes[col] = ~@, !.warning = None]
    /\ UNCHANGED <<call, AnalysisRegistry, registries, window, threads, events>>

\* _on_run_clicked
RunClicked ==
    /\ dialog.status = "open"
    /\ LET error == OptimizationDialog_validate_inputs(dialog)
       IN  IF error # None
           THEN dialog' = [dialog EXCEPT !.warning = error]
           ELSE dialog' = [dialog EXCEPT !.status = "accepted", !.warning = None]
    /\ UNCHANGED <<call, AnalysisRegistry, registries, window, threads, events>>

\* Cancel: reject()
CancelClicked ==
    /\ dialog.status = "open"
    /\ dialog' = [dialog EXCEPT !.status = "rejected", !.warning = None]
    /\ UNCHANGED <<call, AnalysisRegistry, registries, window, threads, events>>

\* config = dialog.get_configuration() after exec() returned Accepted
GetConfiguration ==
    /\ dialog.status = "accepted"
    /\ dialog.config = None
    /\ dialog' = [dialog EXCEPT !.config = Some(get_configuration(dialog))]
    /\ UNCHANGED <<call, AnalysisRegistry, registries, window, threads, events>>

NextDialog ==
    \/ \E i \in 1..TargetRows : \E target \in TargetChoices(i) : SelectTarget(i, target)
    \/ \E id \in {0, 1} : CheckDirection(id)
    \/ \E i \in {1, 2} : ToggleConstraint(i)
    \/ \E index \in {0, 4} : SelectComparator(index)
    \/ \E weight \in WeightChoices : SetWeight(weight)
    \/ \E col \in InputChoices : ToggleInput(col)
    \/ RunClicked
    \/ CancelClicked
    \/ GetConfiguration

SpecDialog == InitDialog /\ [][NextDialog]_vars

(***************************************************************************)
(* The main window in the user's hands.  The main thread runs the handlers *)
(* one at a time, but a handler that opens a modal box or dialog runs an   *)
(* event loop inside it, in which queued finished signals are handled.     *)
(* The user reaches only the box or dialog on top.  A loader thread whose  *)
(* last reference load_file overwrote while it ran is a QThread that       *)
(* Python may destroy while it runs: the process aborts, or the thread     *)
(* ends and its signal is handled, or the thread ends and its signal is    *)
(* lost with the thread object.                                            *)
(***************************************************************************)
\* The user can reach the main window: it lives and nothing modal is open.
WindowIsFree == window.status = "running" /\ window.boxes = <<>> /\ dialog = NoDialog

\* self._show_error(message) of a handler that returns after it
ShowError(w, handler) == [w EXCEPT !.boxes = Append(@, "return"), !.handler = handler]

\* Thread t has ended and the window has handled what it emitted.
Completed(t) == threads[t].state # "running" /\ \A k \in DOMAIN events : events[k].thread # t

\* What a thread that lost its last reference may come to.
Outcomes(t) == IF t = window.loader_thread THEN {"emits"} ELSE {"emits", "lost", "aborts"}

\* MainWindow.load_file(file_path), by the upload button or a dropped file
LoadFile(file_path, outcome) ==
    /\ WindowIsFree
    /\ Len(threads) < MaxLoads
    /\ LET previous == window.loader_thread
           overlaps == previous # NullRef /\ ~Completed(previous)
       IN  /\ outcome = "aborts" => previous # NullRef /\ threads[previous].state = "running"
           /\ threads' = Append(threads, FileLoaderThread(file_path, overlaps))
           /\ window' = [window EXCEPT
                            !.table_layout = Loading,
                            !.loader_thread = Len(threads) + 1,
                            !.handler = "load_file",
                            !.status = IF outcome = "aborts" THEN "aborted" ELSE @]
    /\ UNCHANGED <<call, AnalysisRegistry, registries, events, dialog>>

\* FileLoaderThread.run of thread t, to its end
ThreadRun(t, outcome) ==
    /\ window.status = "running"
    /\ threads[t].state = "running"
    /\ outcome \in Outcomes(t)
    /\ threads' = [threads EXCEPT ![t].state = "finished"]
    /\ LET e == load_file(threads[t].file_path)
       IN  events' = IF outcome = "emits"
                     THEN Append(events, [thread |-> t, df |-> e.df, error |-> e.error])
                     ELSE events
    /\ window' = [window EXCEPT !.status = IF outcome = "aborts" THEN "aborted" ELSE @]
    /\ UNCHANGED <<call, AnalysisRegistry, registries, dialog>>

\* The main thread handles the finished signal that waits longest.
OnFileLoaded ==
    /\ window.status = "running"
    /\ events # <<>>
    /\ window' = _on_file_loaded(window, Head(events))
    /\ events' = Tail(events)
    /\ UNCHANGED <<call, AnalysisRegistry, registries, threads, dialog>>

\* The user closes the error box on top; its handler goes on.
ErrorClosed ==
    /\ window.status = "running"
    /\ window.boxes # <<>>
    /\ LET continues == window.boxes[Len(window.boxes)]
           closed == [window EXCEPT !.boxes = SubSeq(@, 1, Len(@) - 1)]
       IN  window' = IF continues = "_reset_table_container"
                     THEN [closed EXCEPT !.table_layout = Placeholder]
                     ELSE closed
    /\ UNCHANGED <<call, AnalysisRegistry, registries, threads, events, dialog>>

\* _on_drop_columns_clicked up to its error box or its dialog
DropColumnsClicked ==
    /\ WindowIsFree
    /\ IF NoData(window)
       THEN /\ window' = ShowError(window, "_on_drop_columns_clicked")
            /\ UNCHANGED dialog
       ELSE /\ window' = [window EXCEPT !.handler = "_on_drop_columns_clicked"]
            /\ dialog' = [status |-> "columns", columns |-> window.data[1].columns]
    /\ UNCHANGED <<call, AnalysisRegistry, registries, threads, events>>

\* The columns the user may tick in the dialog: the text column, or all.
DropChoices(columns) == {Range(columns) \cap {"S"}, Range(columns)}

\* _on_drop_columns_clicked after the dialog was accepted
DropColumnsAccepted(columns_to_drop) ==
    /\ window.status = "running"
    /\ window.boxes = <<>>
    /\ dialog.status = "columns"
    /\ columns_to_drop \in DropChoices(dialog.columns)
    /\ dialog' = NoDialog
    /\ window' =
           IF columns_to_drop = {} THEN [window EXCEPT !.handler = "_on_drop_columns_clicked"]
           ELSE IF ~(columns_to_drop \subseteq Range(window.data[1].columns))
                THEN ShowError(window, "_on_drop_columns_clicked")
           ELSE LET dropped == [window EXCEPT !.data = Some(Drop(@[1], columns_to_drop)),
                                              !.handler = "_on_drop_columns_clicked"]
                IN  [dropped EXCEPT !.table_layout = Refreshed(dropped)]
    /\ UNCHANGED <<call, AnalysisRegistry, registries, threads, events>>

\* _on_optimization_clicked up to its error box or its dialog
OptimizationClicked ==
    /\ WindowIsFree
    /\ IF NoData(window) \/ Len(NumericColumns(window.data[1])) < 2
       THEN /\ window' = ShowError(window, "_on_optimization_clicked")
            /\ UNCHANGED dialog
       ELSE /\ window' = [window EXCEPT !.handler = "_on_optimization_clicked",
                                        !.analysed = None]
            /\ dialog' = OptimizationDialog(window.data[1])
    /\ UNCHANGED <<call, AnalysisRegistry, registries, threads, events>>

\* _on_optimization_clicked after the dialog was accepted: analyze(data=self.data, ...)
OptimizationAccepted ==
    /\ window.status = "running"
    /\ window.boxes = <<>>
    /\ dialog.status = "open"
    /\ dialog' = NoDialog
    /\ window' = [window EXCEPT !.analysed = window.data,
                                !.handler = "_on_optimization_clicked"]
    /\ UNCHANGED <<call, AnalysisRegistry, registries, threads, events>>

\* The dialog on top is cancelled and its handler returns.
DialogRejected ==
    /\ window.status = "running"
    /\ window.boxes = <<>>
    /\ dialog # NoDialog
    /\ dialog' = NoDialog
    /\ window' = [window EXCEPT !.handler = IF dialog.status = "columns"
                                            THEN "_on_drop_columns_clicked"
                                            ELSE "_on_optimization_clicked"]
    /\ UNCHANGED <<call, AnalysisRegistry, registries, threads, events>>

NextWindow ==
    \/ \E file_path \in FilePaths, outcome \in {"continues", "aborts"} :
           LoadFile(file_path, outcome)
    \/ \E t \in DOMAIN threads, outcome \in {"emits", "lost", "aborts"} : ThreadRun(t, outcome)
    \/ OnFileLoaded
    \/ ErrorClosed
    \/ DropColumnsClicked
    \/ \E columns_to_drop \in SUBSET {"A", "B", "X", "S"} : DropColumnsAccepted(columns_to_drop)
    \/ OptimizationClicked
    \/ OptimizationAccepted
    \/ DialogRejected

SpecWindow == InitStarted /\ [][NextWindow]_vars

(***************************************************************************)
(* What the claims speak of, stated on the caller's data and the request   *)
(* alone, without the operators that model the code.                       *)
(***************************************************************************)
Returned == pc = "done"
IsFailure(message) ==
    /\ result.status = "returned"
    /\ result.success = FALSE
    /\ result.error = Some(message)
    /\ result.data = None
    /\ result.summary = None

Smaller(a, b) == IF a < b THEN a ELSE b

\* The twelve validation rules, in the order the specification lists them.
RuleBroken(k) ==
    LET tv == req.target_variables
        columns == Range(data0.columns)
    IN  CASE k = 1  -> data = NullRef \/ data0.rows = <<>> \/ data0.columns = <<>>
          [] k = 2  -> Len(tv) < 1 \/ Len(tv) > 5
          [] k = 3  -> \E t \in Range(tv) : t \notin columns \/ ~IsNumericDtype(t)
          [] k = 4  -> Len(req.optimization_directions) # Len(tv)
          [] k = 5  -> \E d \in Range(req.optimization_directions) :
                          d # "maximize" /\ d # "minimize"
          [] k = 6  -> Len(req.weights) # Len(tv)
          [] k = 7  -> \E w \in Range(req.weights) : w < 0
          [] k = 8  -> \A w \in Range(req.weights) : w = 0
          [] k = 9  -> \E c \in Range(req.constraints) : c.key \notin Range(tv)
          [] k = 10 -> req.input_variables = <<>>
          [] k = 11 -> \E x \in Range(req.input_variables) :
                          x \notin columns \/ ~IsNumericDtype(x)
          [] k = 12 -> Range(tv) \cap Range(req.input_variables) # {}

RuleMessages(k) ==
    CASE k = 1  -> {"No data provided", "DataFrame is empty"}
      [] k = 2  -> {"At least one target variable must be selected.",
                    "Maximum 5 target variables allowed."}
      [] k = 3  -> {"Target variable '"}
      [] k = 4  -> {"Optimization direction must be specified for all "}
      [] k = 5  -> {"Invalid optimization direction: "}
      [] k = 6  -> {"Weights must be specified for all "}
      [] k = 7  -> {"All weights must be non-negative."}
      [] k = 8  -> {"At least one weight must be positive."}
      [] k = 9  -> {"Constraint specified for '"}
      [] k = 10 -> {"At least one input variable must be selected."}
      [] k = 11 -> {"Input variable '"}
      [] k = 12 -> {"Target variables and input variables cannot overlap."}

BrokenRules == {k \in 1..12 : RuleBroken(k)}
FirstBroken == CHOOSE k \in BrokenRules : \A j \in BrokenRules : k <= j
ValidRequest == BrokenRules = {}

\* A constraint of the documented kind: one of the five comparators, a number.
IsStandard(c) ==
    /\ c.type # None /\ c.type[1] \in {">", ">=", "<", "<=", "=="}
    /\ c.value # None /\ c.value[1].kind = "number"

StandardConstraints == \A k \in DOMAIN req.constraints : IsStandard(req.constraints[k])

Satisfies(row, c) ==
    LET v == row[c.key]
        t == c.value[1].n
        op == c.type[1]
    IN  \/ op = ">" /\ v > t
        \/ op = ">=" /\ (v > t \/ v = t)
        \/ op = "<" /\ t > v
        \/ op = "<=" /\ ~(v > t)
        \/ op = "==" /\ v = t

\* The positions (1, 2, ...) of the caller's rows that satisfy every constraint.
Survivors ==
    {i \in DOMAIN data0.rows :
        \A k \in DOMAIN req.constraints : Satisfies(data0.rows[i], req.constraints[k])}

\* The k-th survivor in the caller's order.
Survivor(k) == CHOOSE i \in Survivors : Cardinality({j \in Survivors : j < i}) = k - 1

(***************************************************************************)
(* C1.  Constraint filtering keeps exactly the caller's rows that satisfy  *)
(* every constraint (>, >=, <, <=, == against a number), in their original *)
(* order, and the outcome is the same for every iteration order of the     *)
(* constraints; when no row satisfies them all, none is kept.              *)
(***************************************************************************)
Reordered(constraints, q) == [k \in DOMAIN constraints |-> constraints[q[k]]]

C1_FilterKeepsExactlySatisfyingRows ==
    /\ (pc = "calculate_scores" /\ StandardConstraints) =>
          LET f == heap[df_filtered]
              n == Cardinality(Survivors)
          IN  /\ NRows(f) = n
              /\ \A k \in 1..n : /\ f.rows[k] = data0.rows[Survivor(k)]
                                 /\ f.index[k] = data0.index[Survivor(k)]
              /\ \A q \in RowOrders(Len(req.constraints)) :
                    ConstraintLoop(data0, FALSE, req.target_variables,
                                   Reordered(req.constraints, q), 1).frame = f
    /\ (Returned /\ StandardConstraints /\ "_apply_constraints" \in called
            /\ "_calculate_scores" \notin called) => Survivors = {}

\* Two constraints have filtered: some rows went, some stayed.
C1_Witness ==
    /\ pc = "calculate_scores"
    /\ StandardConstraints
    /\ Len(req.constraints) = 2
    /\ \E i \in DOMAIN data0.rows :
          /\ Satisfies(data0.rows[i], req.constraints[1])
          /\ ~Satisfies(data0.rows[i], req.constraints[2])
    /\ Cardinality(Survivors) = 2
    /\ NRows(heap[df_filtered]) < NRows(data0)

(***************************************************************************)
(* C2.  For a valid request each surviving row's raw score is the sum over *)
(* the targets of weight * n, with n = (value - min)/(max - min) for       *)
(* maximize and 1 - that for minimize, min and max taken over the          *)
(* surviving rows, and nothing for a target with max = min; the returned   *)
(* score is the raw score rescaled by global min-max when the raw scores   *)
(* differ, and the raw score otherwise.                                    *)
(***************************************************************************)
Lowest(values) == CHOOSE m \in values : \A v \in values : m <= v
Highest(values) == CHOOSE m \in values : \A v \in values : m >= v

\* weight * n(row i of the caller's data) for target number t, the rows S surviving
Term(i, t, S) ==
    LET col == req.target_variables[t]
        lo == Lowest({data0.rows[j][col] : j \in S})
        hi == Highest({data0.rows[j][col] : j \in S})
        n == Frac(data0.rows[i][col] - lo, hi - lo)
    IN  IF hi = lo THEN Zero
        ELSE IF req.optimization_directions[t] = "maximize"
             THEN FMul(FromInt(req.weights[t]), n)
             ELSE FMul(FromInt(req.weights[t]), FSub(One, n))

RECURSIVE SumOfTerms(_, _, _)
SumOfTerms(i, t, S) == IF t = 0 THEN Zero ELSE FAdd(SumOfTerms(i, t - 1, S), Term(i, t, S))

\* The raw score of every surviving row, by its position in the caller's data.
RawScore == [i \in Survivors |-> SumOfTerms(i, Len(req.target_variables), Survivors)]

Differ(raw) == \E i, j \in DOMAIN raw : raw[i] # raw[j]
LowestOf(raw) == CHOOSE i \in DOMAIN raw : \A j \in DOMAIN raw : FLeq(raw[i], raw[j])
HighestOf(raw) == CHOOSE i \in DOMAIN raw : \A j \in DOMAIN raw : FLeq(raw[j], raw[i])

\* The returned score of every surviving row, from the raw scores.
CompositeScore(raw) ==
    LET lo == raw[LowestOf(raw)]
        hi == raw[HighestOf(raw)]
    IN  [i \in DOMAIN raw |->
            IF Differ(raw) THEN FDiv(FSub(raw[i], lo), FSub(hi, lo)) ELSE raw[i]]

C2_ScoreIsWeightedNormalizedSum ==
    (pc = "sort" /\ ValidRequest /\ StandardConstraints) =>
        LET f == heap[df_filtered]
            raw == RawScores(f, req.target_variables, req.optimization_directions, req.weights)
            expected == RawScore
            composite == CompositeScore(expected)
        IN  /\ Len(scores) = Cardinality(Survivors)
            /\ \A k \in 1..Len(scores) : /\ raw[k] = expected[Survivor(k)]
                                         /\ scores[k] = composite[Survivor(k)]

\* Two weighted targets, one minimized, a filter that moves the minimum,
\* and raw scores that differ, so that the rescaling has acted.
C2_Witness ==
    /\ pc = "sort"
    /\ Len(req.target_variables) = 2
    /\ req.optimization_directions[2] = "minimize"
    /\ req.weights[1] > 0 /\ req.weights[2] > 0
    /\ Differ(RawScore)
    /\ \E k \in 1..Len(scores) : scores[k] # RawScore[Survivor(k)]

\* The same with a filter in force: min and max are those of the survivors.
C2_WitnessFiltered ==
    /\ pc = "sort"
    /\ Cardinality(Survivors) < NRows(data0)
    /\ Lowest({data0.rows[i]["A"] : i \in Survivors}) > Lowest({r["A"] : r \in Range(data0.rows)})
    /\ Differ(RawScore)

(***************************************************************************)
(* C3.  The rows analyze returns are ordered by composite score            *)
(* descending, and rows of equal composite score keep the relative order   *)
(* they have in the caller's data.  (sort_values is called without         *)
(* kind='stable', so the second half does not hold.)                       *)
(***************************************************************************)
C3_SortedDescendingAndStable ==
    pc = "build_result" =>
        LET top == heap[top_solutions]
        IN  \A i, j \in 1..NRows(top) :
                i < j => \/ FLess(top.rows[j][ScoreColumn], top.rows[i][ScoreColumn])
                         \/ /\ top.rows[j][ScoreColumn] = top.rows[i][ScoreColumn]
                            /\ top.index[i] < top.index[j]

(***************************************************************************)
(* C4.  For a valid request with top_n >= 1 whose constraints keep at      *)
(* least one row, the result table analyze returns has min(top_n, number   *)
(* of surviving rows) rows.  (The statement is about the table of a        *)
(* successful call; a call that returns no table has no row count.)        *)
(***************************************************************************)
C4_RowCountIsMinOfTopNAndSurvivors ==
    (/\ Returned /\ result.success
     /\ ValidRequest /\ StandardConstraints /\ req.top_n >= 1 /\ Survivors # {}) =>
        NRows(result.data[1]) = Smaller(req.top_n, Cardinality(Survivors))

\* top_n cuts: three rows survive and fewer are asked for.
C4_Witness ==
    /\ Returned
    /\ result.success
    /\ req.top_n = 2
    /\ Cardinality(Survivors) = 3
    /\ NRows(result.data[1]) = 2

\* top_n does not cut: fewer rows survive than are asked for.
C4_WitnessFewSurvivors ==
    /\ Returned
    /\ result.success
    /\ Cardinality(Survivors) = 1
    /\ NRows(data0) = 3
    /\ req.top_n = 2

(***************************************************************************)
(* C8.  For a valid request that keeps at least two rows, not all          *)
(* identical on the target columns, every composite score lies in [0, 1].  *)
(* (When the raw scores of such rows are all equal they are not rescaled,  *)
(* and a raw score is a sum of weights, which may exceed 1.)               *)
(***************************************************************************)
IdenticalOnTargets(f) ==
    \A i, j \in 1..NRows(f) : \A t \in Range(req.target_variables) :
        f.rows[i][t] = f.rows[j][t]

C8_ScoresInUnitInterval ==
    (pc = "sort" /\ ValidRequest /\ NRows(heap[df_filtered]) >= 2
        /\ ~IdenticalOnTargets(heap[df_filtered])) =>
        \A k \in 1..Len(scores) : FLeq(Zero, scores[k]) /\ FLeq(scores[k], One)

(***************************************************************************)
(* C9.  A target whose column is constant over the surviving rows adds 0   *)
(* to every raw score: raw scores and returned scores are those of the     *)
(* request without that target (same rows, so the same ranking).           *)
(***************************************************************************)
Without(s, i) == SubSeq(s, 1, i - 1) \o SubSeq(s, i + 1, Len(s))
IsConstant(f, col) == \A i, j \in 1..NRows(f) : f.rows[i][col] = f.rows[j][col]

C9_ConstantTargetContributesNothing ==
    (pc = "sort" /\ ValidRequest) =>
        LET f == heap[df_filtered]
        IN  \A t \in DOMAIN req.target_variables :
                IsConstant(f, req.target_variables[t]) =>
                    /\ RawScores(f, req.target_variables, req.optimization_directions,
                                 req.weights)
                         = RawScores(f, Without(req.target_variables, t),
                                     Without(req.optimization_directions, t),
                                     Without(req.weights, t))
                    /\ scores = _calculate_scores(f, Without(req.target_variables, t),
                                                  Without(req.optimization_directions, t),
                                                  Without(req.weights, t))

\* A weighted target that varies in the caller's data and is constant over
\* the rows the filter keeps, beside a second target that decides the scores.
C9_Witness ==
    /\ pc = "sort"
    /\ Len(req.target_variables) = 2
    /\ req.weights[1] > 0 /\ req.weights[2] > 0
    /\ ~IsConstant(data0, "A")
    /\ IsConstant(heap[df_filtered], "A")
    /\ ~IsConstant(heap[df_filtered], "B")

\* The only weighted target is constant: every score is 0.
C9_WitnessAllZero ==
    /\ pc = "sort"
    /\ Len(scores) >= 2
    /\ \E t \in DOMAIN req.target_variables :
          req.weights[t] > 0 /\ IsConstant(heap[df_filtered], req.target_variables[t])
    /\ \A k \in 1..Len(scores) : scores[k] = Zero

(***************************************************************************)
(* C5.  When a call breaks validation rules, analyze returns the error of  *)
(* the earliest broken rule in the order: empty or null dataset; target    *)
(* count; target missing or non-numeric; direction count, direction value; *)
(* weight count, negative weight, all weights zero; constraint key not     *)
(* selected; no input, input missing or non-numeric; target/input overlap. *)
(* Nothing is filtered, scored or sorted.                                  *)
(***************************************************************************)
C5_EarliestBrokenRuleIsReported ==
    (Returned /\ ~ValidRequest) =>
        /\ result.status = "returned"
        /\ result.success = FALSE
        /\ result.error # None
        /\ result.error[1][1] \in RuleMessages(FirstBroken)
        /\ result.data = None /\ result.summary = None
        /\ called \subseteq {"_validate_inputs"}
        /\ df_filtered = NullRef /\ scores = <<>> /\ top_solutions = NullRef

\* Several rules are broken at once, in the request itself.
C5_Witness ==
    /\ Returned
    /\ Cardinality(BrokenRules) >= 3
    /\ FirstBroken = 5
    /\ 12 \in BrokenRules

(***************************************************************************)
(* C6.  For a table or None and any request, analyze returns (it never     *)
(* raises), and what it returns is a success with a table, a summary and   *)
(* no error, or a failure with a non-empty message and neither table nor   *)
(* summary.  An exception raised inside is returned as the failure         *)
(* 'Error during optimization: ' + its message.                            *)
(***************************************************************************)
ComparisonFails ==
    \E c \in Range(req.constraints) :
        /\ c.key \in Range(req.target_variables)
        /\ c.type[1] \in {">", ">=", "<", "<="}
        /\ c.value[1].kind # "number"

InsertFails ==
    /\ "Pass" \in Range(data0.columns)
    /\ "Pass" \in Range(req.input_variables) \cup Range(req.target_variables)

C6_ReturnsOneOfTwoShapes ==
    Returned =>
        /\ result.status = "returned"
        /\ \/ /\ result.success = TRUE
              /\ result.data # None /\ result.summary # None /\ result.error = None
           \/ /\ result.success = FALSE
              /\ result.error # None /\ result.error[1] # <<>> /\ result.error[1][1] # ""
              /\ result.data = None /\ result.summary = None
        /\ (ValidRequest /\ ComparisonFails) =>
              IsFailure(<<"Error during optimization: ", <<"TypeError">>>>)
        /\ (ValidRequest /\ ~ComparisonFails /\ Survivors # {} /\ InsertFails) =>
              IsFailure(<<"Error during optimization: ",
                          <<"cannot insert ", "Pass", ", already exists">>>>)

\* An exception raised while filtering has been returned as a failure.
C6_Witness ==
    /\ Returned
    /\ ValidRequest /\ ComparisonFails
    /\ result.success = FALSE
    /\ result.error[1][1] = "Error during optimization: "

\* An exception raised while the result table is built has been returned.
C6_WitnessTable ==
    /\ Returned
    /\ "_calculate_scores" \in called
    /\ result.success = FALSE

(***************************************************************************)
(* C7.  analyze never changes the caller's dataset: after the call, with   *)
(* whatever outcome, it has the rows, columns (no '_composite_score'),     *)
(* values and row order it had before.                                     *)
(***************************************************************************)
C7_CallerDataUnchanged ==
    (Returned /\ data # NullRef) => heap[data] = data0

\* A success without constraints: every row went through the working copies
\* and got its score column.
C7_Witness ==
    /\ Returned
    /\ result.success = TRUE
    /\ req.constraints = <<>>
    /\ ScoreColumn \in Range(result.data[1].columns)
    /\ ScoreColumn \notin Range(heap[data].columns)

(***************************************************************************)
(* C10.  When the constraints leave no row, analyze returns the failure    *)
(* 'No rows satisfy the specified constraints.' with neither table nor     *)
(* summary, and scoring, sorting and the result table are never reached.   *)
(***************************************************************************)
C10_EmptyFilterFailsBeforeScoring ==
    (Returned /\ ValidRequest /\ StandardConstraints /\ Survivors = {}) =>
        /\ IsFailure(<<"No rows satisfy the specified constraints.">>)
        /\ called \cap {"_calculate_scores", "sort_values", "_create_summary"} = {}
        /\ scores = <<>> /\ top_solutions = NullRef

\* Each of two constraints keeps some row, together they keep none.
C10_Witness ==
    /\ Returned
    /\ StandardConstraints
    /\ Len(req.constraints) = 2
    /\ Survivors = {}
    /\ \A k \in 1..2 : \E i \in DOMAIN data0.rows : Satisfies(data0.rows[i], req.constraints[k])
    /\ result.success = FALSE

(***************************************************************************)
(* C11.  On success the result table's columns are one identifier column,  *)
(* the input variables in the order given, the target variables in the     *)
(* order given, then '_composite_score'.  The identifier holds the 'Pass'  *)
(* column's values when the data has a column 'Pass', else the 'pass'      *)
(* column's values when it has a column 'pass', else the original row      *)
(* index; the identifier, input and target cells of a returned row all     *)
(* come from one row of the caller's data.                                 *)
(***************************************************************************)
IdentifierOf(i) ==
    IF "Pass" \in Range(data0.columns) THEN data0.rows[i]["Pass"]
    ELSE IF "pass" \in Range(data0.columns) THEN data0.rows[i]["pass"]
    ELSE data0.index[i]

C11_ResultColumnsAndIdentifier ==
    (Returned /\ result.success) =>
        LET t == result.data[1]
            named == req.input_variables \o req.target_variables
        IN  /\ Len(t.columns) = Len(named) + 2
            /\ SubSeq(t.columns, 2, Len(t.columns)) = named \o <<ScoreColumn>>
            /\ t.columns[1] \notin Range(named) \cup {ScoreColumn}
            /\ \A k \in 1..NRows(t) :
                  \E i \in DOMAIN data0.rows :
                      /\ t.rows[k][t.columns[1]] = IdentifierOf(i)
                      /\ \A c \in Range(named) : t.rows[k][c] = data0.rows[i][c]

\* The data has 'pass' and not 'Pass', and the ranking has moved the second
\* row of the data to the top.
C11_Witness ==
    /\ Returned /\ result.success
    /\ "pass" \in Range(data0.columns) /\ "Pass" \notin Range(data0.columns)
    /\ NRows(result.data[1]) = 2
    /\ result.data[1].rows[1][result.data[1].columns[1]] = data0.rows[2]["pass"]

\* Both spellings are columns: 'Pass' is the one that is read.
C11_WitnessBothSpellings ==
    /\ Returned /\ result.success
    /\ {"pass", "Pass"} \subseteq Range(data0.columns)
    /\ result.data[1].rows[1][result.data[1].columns[1]] = data0.rows[2]["Pass"]

\* No such column: the row index identifies the rows.
C11_WitnessRowIndex ==
    /\ Returned /\ result.success
    /\ {"pass", "Pass"} \cap Range(data0.columns) = {}
    /\ NRows(result.data[1]) >= 2
    /\ result.data[1].rows[1][result.data[1].columns[1]] = data0.index[2]

(***************************************************************************)
(* C12.  A target with weight 0 and no constraint has no influence: with   *)
(* other values in its column, or with the other direction, every score    *)
(* is the same (and so is the ranking, which is computed from the scores). *)
(* When exactly one target has a positive weight, the returned rows are    *)
(* the surviving rows sorted by that target, descending for maximize and   *)
(* ascending for minimize.                                                 *)
(***************************************************************************)
CellValues == {r[c] : r \in RowsOfData, c \in {"A", "B"}}

Unconstrained(col) == \A k \in DOMAIN req.constraints : req.constraints[k].key # col

Weighted == {t \in DOMAIN req.weights : req.weights[t] > 0}

C12_ZeroWeightTargetHasNoInfluence ==
    /\ (pc = "sort" /\ ValidRequest) =>
          LET f == heap[df_filtered]
          IN  \A t \in DOMAIN req.target_variables :
                (req.weights[t] = 0 /\ Unconstrained(req.target_variables[t])) =>
                    \A other \in [1..NRows(f) -> CellValues], d \in {"maximize", "minimize"} :
                        _calculate_scores(SetColumn(f, req.target_variables[t], other),
                                          req.target_variables,
                                          [req.optimization_directions EXCEPT ![t] = d],
                                          req.weights) = scores
    /\ (pc = "build_result" /\ ValidRequest /\ Cardinality(Weighted) = 1) =>
          LET t == CHOOSE w \in Weighted : TRUE
              col == req.target_variables[t]
              top == heap[top_solutions]
          IN  /\ NRows(top) = Smaller(req.top_n, Cardinality(Survivors))
              /\ \A i, j \in 1..NRows(top) :
                    i < j => IF req.optimization_directions[t] = "maximize"
                             THEN top.rows[i][col] >= top.rows[j][col]
                             ELSE top.rows[i][col] <= top.rows[j][col]

\* Weights [w, 0] with w > 0: the second target varies and is not counted,
\* the first is minimized and the rows have been reordered by it.
C12_Witness ==
    /\ pc = "build_result"
    /\ Len(req.target_variables) = 2
    /\ req.weights[1] > 0 /\ req.weights[2] = 0
    /\ req.optimization_directions = <<"minimize", "minimize">>
    /\ ~IsConstant(data0, "B")
    /\ NRows(heap[top_solutions]) = 3
    /\ heap[top_solutions].rows[1]["A"] < heap[top_solutions].rows[3]["A"]
    /\ heap[top_solutions].index # data0.index

(***************************************************************************)
(* C13.  Flipping one target's direction from maximize to minimize, all    *)
(* else fixed, replaces the target's contribution w*n to each raw score by *)
(* w*(1-n): the row with the column's maximum goes from w to 0, the row    *)
(* with the minimum from 0 to w.  With a single target, rows of distinct   *)
(* target values are ranked in exactly the reverse order.                  *)
(***************************************************************************)
Flipped(direction) == IF direction = "maximize" THEN "minimize" ELSE "maximize"

C13_FlippedDirectionInvertsContribution ==
    (pc = "sort" /\ ValidRequest) =>
        LET f == heap[df_filtered]
            tv == req.target_variables
            dirs == req.optimization_directions
        IN  /\ \A t \in DOMAIN tv :
                  (req.weights[t] > 0 /\ ~IsConstant(f, tv[t])) =>
                      LET v == ColumnValues(f, tv[t])
                          w == FromInt(req.weights[t])
                          lo == Lowest(Range(v))
                          hi == Highest(Range(v))
                          up == Contribution(v, "maximize", req.weights[t])
                          down == Contribution(v, "minimize", req.weights[t])
                          raw == RawScores(f, tv, dirs, req.weights)
                          flipped == RawScores(f, tv, [dirs EXCEPT ![t] = Flipped(@)],
                                               req.weights)
                      IN  \A k \in DOMAIN v :
                            /\ up[k] = FMul(w, Frac(v[k] - lo, hi - lo))
                            /\ down[k] = FSub(w, up[k])
                            /\ v[k] = hi => up[k] = w /\ down[k] = Zero
                            /\ v[k] = lo => up[k] = Zero /\ down[k] = w
                            /\ FSub(flipped[k], raw[k])
                                  = IF dirs[t] = "maximize" THEN FSub(down[k], up[k])
                                    ELSE FSub(up[k], down[k])
            /\ Len(tv) = 1 =>
                  LET v == ColumnValues(f, tv[1])
                      other == _calculate_scores(f, tv, <<Flipped(dirs[1])>>, req.weights)
                  IN  \A i, j \in DOMAIN v :
                          v[i] # v[j] => (FLess(scores[i], scores[j])
                                            <=> FLess(other[j], other[i]))

\* One minimized target of weight 2 with three distinct values: the row of
\* the smallest value has the highest score.
C13_Witness ==
    /\ pc = "sort"
    /\ req.target_variables = <<"A">>
    /\ req.optimization_directions = <<"minimize">>
    /\ req.weights = <<2>>
    /\ ColumnValues(heap[df_filtered], "A") = <<0, 2, 1>>
    /\ scores = <<One, Zero, Frac(1, 2)>>

\* Two targets: the flipped one holds its column's maximum in the first row.
C13_WitnessTwoTargets ==
    /\ pc = "sort"
    /\ Len(req.target_variables) = 2
    /\ req.weights = <<1, 2>>
    /\ req.optimization_directions[2] = "minimize"
    /\ ColumnValues(heap[df_filtered], "B") = <<1, 0>>
    /\ ~IsConstant(heap[df_filtered], "A")

(***************************************************************************)
(* C14.  analyze is deterministic and stateless: in a sequence of calls on *)
(* one instance, two calls with equal data and equal request return equal  *)
(* results (rows, order, scores, summary, or error), whatever was called   *)
(* in between; and the instance is as its constructor left it.             *)
(***************************************************************************)
\* The frames of the invocations that have returned.
Finished ==
    {parked[t] : t \in {u \in DOMAIN parked : u # current /\ parked[u].pc = "done"}}
        \cup (IF pc = "done" THEN {Locals} ELSE {})

C14_EqualCallsReturnEqualResults ==
    /\ self = Instance
    /\ \A a, b \in Finished :
          (a.data0 = b.data0 /\ a.req = b.req) => a.result = b.result

\* The first and the third call are equal and return one of two rows that
\* tie; the call in between is another one, and sorts tied rows too.
C14_Witness ==
    /\ pc = "done" /\ current = 3
    /\ parked[1].pc = "done" /\ parked[2].pc = "done"
    /\ parked[1].data0 = data0 /\ parked[1].req = req
    /\ parked[2].req # req
    /\ parked[2].result.success
    /\ result.success
    /\ req.top_n = 1
    /\ Cardinality(Survivors) = 2
    /\ parked[1].result = result

(***************************************************************************)
(* C15.  Invocations of analyze whose steps interleave, each on a dataset  *)
(* object of its own, each return what they return when run alone: the     *)
(* result is the one the steps of analyze give when applied in sequence to *)
(* the invocation's own data and request, and no invocation changes the    *)
(* data of another or the instance.                                        *)
(***************************************************************************)
\* The steps of analyze applied one after the other to d and r: whether it
\* ends before the scores, the scored frame, and what it returns when
\* sort_values gives the order p.
AloneFiltered(d, r) == ConstraintLoop(d, FALSE, r.target_variables, r.constraints, 1)

AloneEndsEarly(d, r) ==
    \/ validate_data(<<d>>, 1) # None
    \/ _validate_inputs(d, r) # None
    \/ AloneFiltered(d, r).raised
    \/ IsEmptyFrame(AloneFiltered(d, r).frame)

AloneScored(d, r) ==
    LET f == AloneFiltered(d, r).frame
    IN  SetColumn(f, ScoreColumn,
                  _calculate_scores(f, r.target_variables, r.optimization_directions,
                                    r.weights))

AloneTable(d, r, p) ==
    LET top == DfHead(Take(AloneScored(d, r), p), r.top_n)
        selected == SelectColumns(top, r.input_variables \o r.target_variables
                                           \o <<ScoreColumn>>)
    IN  RoundFrame(InsertFirst(selected, IdentifierName(d.columns),
                               IdentifierValues(d.columns, top)))

Alone(d, r, p) ==
    IF validate_data(<<d>>, 1) # None THEN Failure(validate_data(<<d>>, 1)[1])
    ELSE IF _validate_inputs(d, r) # None THEN Failure(_validate_inputs(d, r)[1])
    ELSE IF AloneFiltered(d, r).raised THEN Caught(<<"TypeError">>)
    ELSE IF IsEmptyFrame(AloneFiltered(d, r).frame)
        THEN Failure(<<"No rows satisfy the specified constraints.">>)
    ELSE Success(AloneTable(d, r, p),
                 _create_summary(NRows(d), NRows(AloneScored(d, r)),
                                 NRows(AloneTable(d, r, p)), r.target_variables,
                                 r.input_variables))

\* What the call returns alone, in this process: the order of tied scores
\* is the one argsort gives in this process.
AloneResults(d, r) ==
    IF AloneEndsEarly(d, r) THEN {Alone(d, r, <<>>)}
    ELSE {Alone(d, r, p) : p \in ArgsortOrders(AloneScored(d, r), ScoreColumn)}

\* The frames of all invocations.
Invocations == {parked[t] : t \in DOMAIN parked \ {current}} \cup {Locals}

C15_InterleavedInvocationsAreIndependent ==
    /\ self = Instance
    /\ \A c \in Invocations : heap[c.data] = c.data0
    /\ \A c \in Finished : c.result \in AloneResults(c.data0, c.req)

\* An invocation has returned its table after another one, with another
\* request, sorted its rows, and before that one has built its table.
C15_Witness ==
    /\ pc = "done" /\ result.success
    /\ NRows(result.data[1]) >= 2
    /\ \E t \in DOMAIN parked \ {current} :
          /\ parked[t].pc = "build_result"
          /\ parked[t].req # req
          /\ parked[t].df_filtered < df_filtered

(***************************************************************************)
(* C16.  A request with a constraint whose key is not a selected target,   *)
(* and that breaks no earlier rule, fails validation with the error for a  *)
(* constraint on an unselected target, before any row is filtered; and     *)
(* _apply_constraints, called with such a constraint, skips it and filters *)
(* by the constraints on selected targets only.                            *)
(***************************************************************************)
OnSelected(c) == c.key \in Range(req.target_variables)

\* The first key, in the dict's order, that is not a selected target.
FirstUnselected ==
    req.constraints[CHOOSE k \in DOMAIN req.constraints :
                        /\ ~OnSelected(req.constraints[k])
                        /\ \A j \in 1..(k - 1) : OnSelected(req.constraints[j])].key

\* The positions of the caller's rows that satisfy the constraints on selected targets.
SurvivorsOfSelected ==
    {i \in DOMAIN data0.rows :
        \A k \in DOMAIN req.constraints :
            OnSelected(req.constraints[k]) => Satisfies(data0.rows[i], req.constraints[k])}

HelperReturned == pc = "done" /\ "_validate_inputs" \notin called /\ df_filtered # NullRef

C16_UnselectedConstraintRejectedAndSkipped ==
    /\ (Returned /\ "_validate_inputs" \in called /\ ~ValidRequest /\ FirstBroken = 9) =>
          /\ IsFailure(<<"Constraint specified for '", FirstUnselected,
                         "' but this target is not selected.">>)
          /\ "_apply_constraints" \notin called
          /\ df_filtered = NullRef
    /\ HelperReturned =>
          LET f == heap[df_filtered]
              kept == Positions(NRows(data0), SurvivorsOfSelected)
          IN  /\ f = Take(data0, kept)
              /\ heap[data] = data0

\* analyze has rejected a request whose second constraint is on a name that
\* is not selected, while the first one is on a target.
C16_Witness ==
    /\ Returned /\ "_validate_inputs" \in called
    /\ Len(req.constraints) = 2
    /\ OnSelected(req.constraints[1]) /\ ~OnSelected(req.constraints[2])
    /\ result.success = FALSE

\* The helper has filtered by A >= 1 and has kept a row that fails the
\* constraint on the unselected column B.
C16_WitnessHelper ==
    /\ HelperReturned
    /\ req.target_variables = <<"A">>
    /\ Len(req.constraints) = 2
    /\ req.constraints[1].key = "B"
    /\ NRows(heap[df_filtered]) = 2 /\ NRows(data0) = 3
    /\ \E k \in 1..2 : heap[df_filtered].rows[k]["B"] # 0

\* The same for a key that is no column of the data.
C16_WitnessNoColumn ==
    /\ HelperReturned
    /\ Len(req.constraints) = 2
    /\ req.constraints[1].key = "Q"
    /\ NRows(heap[df_filtered]) = 1 /\ NRows(data0) = 3

(***************************************************************************)
(* C17.  On success the summary reports: total rows = the rows of the data *)
(* passed in; rows satisfying constraints = the rows that survive the      *)
(* filter; solutions returned = the rows of the result table, which is     *)
(* min(top_n, surviving) for a positive top_n; and the target and input    *)
(* names in the order given.  Hence returned <= surviving <= total.        *)
(***************************************************************************)
C17_SummaryMatchesComputation ==
    (Returned /\ result.success /\ StandardConstraints) =>
        LET s == result.summary[1]
        IN  /\ s.total_rows = NRows(data0)
            /\ s.filtered_rows = Cardinality(Survivors)
            /\ s.result_rows = NRows(result.data[1])
            /\ req.top_n >= 1 => s.result_rows = Smaller(req.top_n, Cardinality(Survivors))
            /\ s.target_variables = req.target_variables
            /\ s.input_variables = req.input_variables
            /\ s.result_rows <= s.filtered_rows
            /\ s.filtered_rows <= s.total_rows

\* The three counts differ: three rows, two survive, one is returned.
C17_Witness ==
    /\ Returned /\ result.success
    /\ result.summary[1].total_rows = 3
    /\ result.summary[1].filtered_rows = 2
    /\ result.summary[1].result_rows = 1
    /\ result.summary[1].target_variables = <<"A", "B">>

(***************************************************************************)
(* C18.  When the surviving rows' raw weighted sums are not all equal, the *)
(* first returned row has composite score exactly 1 and the lowest score   *)
(* among the surviving rows is exactly 0.  For the example data            *)
(* (Pass, Yield, Cost, X1) = (1,80,50,3), (2,90,40,5), (3,70,60,2) with    *)
(* Yield maximize weight 1, Cost minimize weight 1, no constraint and      *)
(* top_n 3, the rows come out as Pass 2, 1, 3 with scores 1, 0.5, 0.       *)
(***************************************************************************)
IsExampleCall ==
    /\ data0 = ExampleFrame
    /\ req = Request(<<"Yield", "Cost">>, <<"maximize", "minimize">>, <<>>, <<1, 1>>,
                     <<"X1">>, 3)

C18_BestScoresOneWorstScoresZero ==
    /\ (/\ Returned /\ result.success /\ ValidRequest /\ StandardConstraints
        /\ req.top_n >= 1 /\ Differ(RawScore)) =>
          /\ result.data[1].rows[1][ScoreColumn] = One
          /\ \E k \in DOMAIN scores : scores[k] = Zero
          /\ \A k \in DOMAIN scores : FLeq(Zero, scores[k])
    /\ (Returned /\ IsExampleCall) =>
          /\ result.success
          /\ ColumnValues(result.data[1], "Pass") = <<2, 1, 3>>
          /\ ColumnValues(result.data[1], ScoreColumn) = <<One, Frac(1, 2), Zero>>

\* The example has been ranked.
C18_Witness ==
    /\ Returned /\ IsExampleCall
    /\ result.success
    /\ NRows(result.data[1]) = 3

\* Raw sums that differ and whose minimum is not 0.
C18_WitnessRawMinimumPositive ==
    /\ Returned /\ result.success
    /\ Differ(RawScore)
    /\ \A i \in Survivors : FLess(Zero, RawScore[i])

(***************************************************************************)
(* C19.  When exactly one row survives the constraints, or all surviving   *)
(* rows are identical on every target column, analyze succeeds, every      *)
(* returned composite score is 0, and the rows are returned in their       *)
(* original order, capped at top_n; with Cost < 45 on the example data the *)
(* result is the one row with Pass = 2.  (The scores all tie, and          *)
(* sort_values does not keep tied rows in their original order: see C3.)   *)
(***************************************************************************)
SurvivorsIdenticalOnTargets ==
    \A i, j \in Survivors : \A t \in Range(req.target_variables) :
        data0.rows[i][t] = data0.rows[j][t]

IsDegenerateCall ==
    /\ ValidRequest /\ StandardConstraints /\ req.top_n >= 1
    /\ Survivors # {}
    /\ SurvivorsIdenticalOnTargets

IsFilteredExampleCall ==
    /\ data0 = ExampleFrame
    /\ req = Request(<<"Yield", "Cost">>, <<"maximize", "minimize">>,
                     <<Constraint("Cost", "<", Number(45))>>, <<1, 1>>, <<"X1">>, 3)

C19_DegenerateScoresAreZero ==
    (Returned /\ IsDegenerateCall) =>
        /\ result.success
        /\ NRows(result.data[1]) = Smaller(req.top_n, Cardinality(Survivors))
        /\ \A k \in 1..NRows(result.data[1]) : result.data[1].rows[k][ScoreColumn] = Zero
        /\ IsFilteredExampleCall => ColumnValues(result.data[1], "Pass") = <<2>>

C19_DegenerateRowsInOriginalOrder ==
    /\ C19_DegenerateScoresAreZero
    /\ (Returned /\ IsDegenerateCall /\ result.success) =>
          \A k \in 1..NRows(result.data[1]) :
              result.data[1].rows[k][result.data[1].columns[1]] = IdentifierOf(Survivor(k))

\* Cost < 45 on the example data: one row survives and is returned with score 0.
C19_WitnessOneSurvivor ==
    /\ Returned /\ IsFilteredExampleCall
    /\ result.success
    /\ Cardinality(Survivors) = 1

(***************************************************************************)
(* C20.  The final min-max rescaling never changes the ranking: of two     *)
(* surviving rows, one has the greater, an equal or the smaller final      *)
(* score exactly when it has the greater, an equal or the smaller raw      *)
(* weighted sum; the rows come out in an order that is descending by raw   *)
(* weighted sum.                                                           *)
(***************************************************************************)
\* The raw weighted sum of the row of the caller's data with index label l.
RawScoreOfLabel(l) == RawScore[CHOOSE i \in Survivors : data0.index[i] = l]

C20_RescalingKeepsRanking ==
    /\ (pc = "sort" /\ ValidRequest /\ StandardConstraints) =>
          \A a, b \in DOMAIN scores :
              /\ FLess(scores[a], scores[b])
                    <=> FLess(RawScore[Survivor(a)], RawScore[Survivor(b)])
              /\ scores[a] = scores[b] <=> RawScore[Survivor(a)] = RawScore[Survivor(b)]
    /\ (pc = "build_result" /\ ValidRequest /\ StandardConstraints) =>
          LET top == heap[top_solutions]
              returned == Range(top.index)
          IN  /\ \A i, j \in 1..NRows(top) :
                    i < j => FLeq(RawScoreOfLabel(top.index[j]), RawScoreOfLabel(top.index[i]))
              /\ \A i \in Survivors : \A j \in 1..NRows(top) :
                    data0.index[i] \notin returned =>
                        FLeq(RawScore[i], RawScoreOfLabel(top.index[j]))

\* Three rows with three raw sums, none of them 0 or 1: the rescaling has
\* changed every score, and the rows have been reordered.
C20_Witness ==
    /\ pc = "build_result"
    /\ Cardinality(Survivors) = 3
    /\ Cardinality({RawScore[i] : i \in Survivors}) = 3
    /\ \A i \in Survivors : FLess(Zero, RawScore[i]) /\ RawScore[i] # One
    /\ \E k \in DOMAIN scores : scores[k] # RawScore[Survivor(k)]
    /\ heap[top_solutions].index # data0.index

(***************************************************************************)
(* C21.  In every success result the '_composite_score' column is          *)
(* non-increasing from the first row to the last, also after the rounding  *)
(* to 4 decimal places: a returned score is the row's composite score      *)
(* rounded, and the rows are in non-increasing order of the scores before  *)
(* the rounding too.  Every surviving row that was not returned has a      *)
(* composite score less than or equal to that of the last returned row.    *)
(***************************************************************************)
\* The row of the caller's data that a returned row's identifier names.
RowOfIdentifier(id) == CHOOSE i \in DOMAIN data0.rows : IdentifierOf(i) = id

\* The positions in the caller's data of the returned rows, in the order returned.
ReturnedRows ==
    LET t == result.data[1]
    IN  [k \in 1..NRows(t) |-> RowOfIdentifier(t.rows[k][t.columns[1]])]

\* x is c at 4 decimal places: a multiple of 1/10000 at most 1/20000 away.
IsRoundingOf(x, c) ==
    /\ RoundScale % x[2] = 0
    /\ FLeq(FSub(x, c), <<1, 2 * RoundScale>>)
    /\ FLeq(FSub(c, x), <<1, 2 * RoundScale>>)

C21_ReturnedScoresNonIncreasing ==
    (Returned /\ result.success /\ StandardConstraints) =>
        LET t == result.data[1]
            n == NRows(t)
            composite == CompositeScore(RawScore)
        IN  /\ \A k \in 1..n : ReturnedRows[k] \in Survivors
            /\ \A k \in 1..n : IsRoundingOf(t.rows[k][ScoreColumn], composite[ReturnedRows[k]])
            /\ \A j, k \in 1..n :
                  j < k => /\ FLeq(t.rows[k][ScoreColumn], t.rows[j][ScoreColumn])
                           /\ FLeq(composite[ReturnedRows[k]], composite[ReturnedRows[j]])
            /\ n >= 1 =>
                  \A i \in Survivors \ Range(ReturnedRows) :
                      FLeq(composite[i], composite[ReturnedRows[n]])

\* Three rows with scores 1, 1/3 and 0, two of them asked for: 1/3 has been
\* rounded to 0.3333 and the row that scores 0 was left out.
C21_Witness ==
    /\ Returned /\ result.success
    /\ Cardinality(Survivors) = 3
    /\ NRows(result.data[1]) = 2
    /\ result.data[1].rows[2][ScoreColumn] = <<3333, 10000>>
    /\ CompositeScore(RawScore)[ReturnedRows[2]] = <<1, 3>>
    /\ \E i \in Survivors \ Range(ReturnedRows) : CompositeScore(RawScore)[i] = Zero

(***************************************************************************)
(* C22.  _infer_data_types converts a non-numeric column to numeric        *)
(* exactly when at least one of its values parses as a number and          *)
(* (values that parse) / (non-null original values) >= 0.8: at exactly 80% *)
(* the column is converted, below it is left as it was.  A numeric column  *)
(* is never touched, the caller's table is not modified (the result is a   *)
(* copy), and in a converted column the values that did not parse are      *)
(* missing.                                                                *)
(***************************************************************************)
\* The strings of the model's files that write a number, and the number.
NumberTexts == {<<<<"1">>, 1>>, <<<<"-", "2">>, -2>>}

ParsesAsNumber(cell) ==
    \/ cell.kind = "num"
    \/ cell.kind = "str" /\ \E e \in NumberTexts : e[1] = cell.text

NumberOf(cell) ==
    IF cell.kind = "num" THEN cell.n ELSE (CHOOSE e \in NumberTexts : e[1] = cell.text)[2]

ParsedCount(f, col) == Cardinality({i \in 1..NRows(f) : ParsesAsNumber(f.rows[i][col])})
NonNullCount(f, col) == Cardinality({i \in 1..NRows(f) : f.rows[i][col].kind # "null"})

IsNumericColumn(f, col) == f.dtypes[col] \in {"int64", "float64"}

\* At least one value parses, and at least 80 in 100 of the non-null ones do.
ShouldConvert(f, col) ==
    /\ ~IsNumericColumn(f, col)
    /\ ParsedCount(f, col) >= 1
    /\ 100 * ParsedCount(f, col) >= 80 * NonNullCount(f, col)

InferReturned == pc = "done" /\ result.status = "returned" /\ "ref" \in DOMAIN result

C22_ConvertsAtEightyPercent ==
    InferReturned =>
        LET out == heap[result.ref]
        IN  /\ result.ref # data
            /\ heap[data] = data0
            /\ out.columns = data0.columns /\ out.index = data0.index
            /\ \A col \in Range(data0.columns) :
                  IF ShouldConvert(data0, col)
                  THEN /\ IsNumericColumn(out, col)
                       /\ \A i \in 1..NRows(data0) :
                             IF ParsesAsNumber(data0.rows[i][col])
                             THEN /\ out.rows[i][col].kind = "num"
                                  /\ out.rows[i][col].n = NumberOf(data0.rows[i][col])
                             ELSE out.rows[i][col].kind = "null"
                  ELSE /\ out.dtypes[col] = data0.dtypes[col]
                       /\ ColumnValues(out, col) = ColumnValues(data0, col)

\* Five values, none missing, four of them numbers: exactly 80%, converted,
\* and the fifth value is missing in the result.
C22_Witness ==
    /\ InferReturned
    /\ NonNullCount(data0, "T") = 5 /\ ParsedCount(data0, "T") = 4
    /\ data0.rows[5]["T"] = StrCell(<<"1", "x">>)
    /\ heap[result.ref].dtypes["T"] = "float64"
    /\ heap[result.ref].rows[5]["T"].kind = "null"
    /\ heap[result.ref].rows[2]["T"].kind = "num"

\* Four non-null values, three of them numbers, and a missing one: 75% of
\* the non-null values (3 in 5 of all values), left as it was.
C22_WitnessBelow ==
    /\ InferReturned
    /\ NRows(data0) = 5
    /\ NonNullCount(data0, "T") = 4 /\ ParsedCount(data0, "T") = 3
    /\ heap[result.ref].dtypes["T"] = "object"
    /\ heap[result.ref] = data0

\* Missing values do not count: four numbers and a missing value, converted.
C22_WitnessNullsNotCounted ==
    /\ InferReturned
    /\ NRows(data0) = 5
    /\ NonNullCount(data0, "T") = 4 /\ ParsedCount(data0, "T") = 4
    /\ \E i \in 1..5 : data0.rows[i]["T"].kind = "str"
    /\ IsNumericColumn(heap[result.ref], "T")

(***************************************************************************)
(* C24.  Every request that passes all validation rules and whose          *)
(* constraints keep at least one row yields a success result, never the    *)
(* failure 'Error during optimization: ...', whichever numeric columns are *)
(* chosen as input and target variables, a numeric column named 'Pass',    *)
(* 'pass' or 'Row Index' included.  (analyze inserts an identifier column  *)
(* named 'Pass' or 'Row Index' into the result table; when a chosen column *)
(* has that name the insert raises.)                                       *)
(***************************************************************************)
C24_ValidRequestWithSurvivorsSucceeds ==
    (Returned /\ ValidRequest /\ StandardConstraints /\ Survivors # {}) =>
        /\ result.status = "returned"
        /\ result.success

\* The part that holds: such a request fails only when a chosen column has
\* the name of the identifier column analyze adds, and then always.
ChosenColumns == Range(req.input_variables) \cup Range(req.target_variables)

IdentifierClash ==
    \/ "Pass" \in Range(data0.columns) /\ "Pass" \in ChosenColumns
    \/ /\ "Pass" \notin Range(data0.columns) /\ "pass" \in Range(data0.columns)
       /\ "Pass" \in ChosenColumns
    \/ /\ {"Pass", "pass"} \cap Range(data0.columns) = {}
       /\ "Row Index" \in ChosenColumns

C24_FailsExactlyOnIdentifierClash ==
    (Returned /\ ValidRequest /\ StandardConstraints /\ Survivors # {}) =>
        /\ result.status = "returned"
        /\ result.success <=> ~IdentifierClash
        /\ ~result.success => result.error[1][1] = "Error during optimization: "

\* 'Row Index' chosen as the input of a valid request: the call has failed.
C24_WitnessRowIndex ==
    /\ Returned /\ ValidRequest /\ Survivors # {}
    /\ req.input_variables = <<"Row Index">>
    /\ ~result.success

\* 'pass' chosen on data that has 'pass' only: the call has succeeded.
C24_WitnessLowerPass ==
    /\ Returned /\ ValidRequest /\ Survivors # {}
    /\ req.target_variables = <<"pass">>
    /\ result.success

(***************************************************************************)
(* C25.  Validation never inspects a constraint's comparator or threshold. *)
(* A constraint on a selected target whose comparator is none of '>',      *)
(* '>=', '<', '<=', '==', '=' is accepted and filters out no rows; a       *)
(* constraint with no 'type' behaves as '>'; one with no 'value' uses the  *)
(* threshold 0.  None of these cases produces an error: with a numeric or  *)
(* absent threshold the call succeeds when rows remain.                    *)
(***************************************************************************)
KnownComparators == {">", ">=", "<", "<=", "==", "="}

\* What a constraint asks of a row, its absent parts filled in.
Asks(row, c) ==
    LET op == IF c.type = None THEN ">" ELSE c.type[1]
        threshold == IF c.value = None THEN Number(0) ELSE c.value[1]
        v == row[c.key]
    IN  IF op \notin KnownComparators THEN TRUE
        ELSE IF threshold.kind # "number" THEN FALSE
        ELSE \/ op = ">" /\ v > threshold.n
             \/ op = ">=" /\ v >= threshold.n
             \/ op = "<" /\ v < threshold.n
             \/ op = "<=" /\ v <= threshold.n
             \/ op \in {"==", "="} /\ v = threshold.n

\* An ordering against a text: the comparison itself raises.
AsksOrderingOfText(c) ==
    /\ (c.type = None \/ c.type[1] \in {">", ">=", "<", "<="})
    /\ c.value # None /\ c.value[1].kind # "number"

Kept == {i \in DOMAIN data0.rows : \A k \in DOMAIN req.constraints : Asks(data0.rows[i], req.constraints[k])}

ValidationMessages == UNION {RuleMessages(k) : k \in 1..12}

C25_ComparatorAndThresholdNotValidated ==
    /\ (Returned /\ ValidRequest) =>
          /\ "_apply_constraints" \in called
          /\ result.status = "returned"
          /\ ~result.success => result.error[1][1] \notin ValidationMessages
    /\ (Returned /\ ValidRequest /\ \A c \in Range(req.constraints) : ~AsksOrderingOfText(c)) =>
          IF Kept = {} THEN IsFailure(<<"No rows satisfy the specified constraints.">>)
          ELSE /\ result.success
               /\ result.summary[1].filtered_rows = Cardinality(Kept)
    /\ (pc = "calculate_scores" /\ ValidRequest) =>
          /\ NRows(heap[df_filtered]) = Cardinality(Kept)
          /\ \A k \in 1..NRows(heap[df_filtered]) :
                \E i \in Kept : /\ heap[df_filtered].rows[k] = data0.rows[i]
                                /\ heap[df_filtered].index[k] = data0.index[i]

\* No comparator that analyze knows, and a text for a threshold: all three
\* rows are kept and the call has succeeded.
C25_Witness ==
    /\ Returned /\ result.success
    /\ Len(req.constraints) = 1
    /\ req.constraints[1].type = Some("~") /\ req.constraints[1].value = Some(Text)
    /\ NRows(data0) = 3
    /\ result.summary[1].filtered_rows = 3

\* No 'type' and no 'value': the rows with A > 0 are kept, a row with A = 0 is not.
C25_WitnessDefaults ==
    /\ Returned /\ result.success
    /\ Len(req.constraints) = 1
    /\ req.constraints[1].type = None /\ req.constraints[1].value = None
    /\ \E i \in DOMAIN data0.rows : data0.rows[i]["A"] = 0
    /\ result.summary[1].filtered_rows = NRows(data0) - 1
    /\ NRows(data0) = 3

\* No 'type' and the threshold 1: the rows with A = 1 are not kept.
C25_WitnessNoType ==
    /\ Returned /\ result.success
    /\ req.constraints[1].type = None /\ req.constraints[1].value = Some(Number(1))
    /\ \E i \in DOMAIN data0.rows : data0.rows[i]["A"] = 1
    /\ \E i \in DOMAIN data0.rows : data0.rows[i]["A"] = 2
    /\ Kept = {i \in DOMAIN data0.rows : data0.rows[i]["A"] = 2}

(***************************************************************************)
(* C26.  top_n is never validated: a request that is otherwise valid and   *)
(* keeps at least one row succeeds for every integer top_n.  It returns    *)
(* zero rows for top_n = 0 and, for top_n = -k with k > 0, all surviving   *)
(* rows except the k lowest-ranked ones (none when k is the number of      *)
(* surviving rows or more).  No failure is produced because of top_n.      *)
(***************************************************************************)
\* The number of rows a request for n rows gets from s ranked rows.
RowsFor(n, s) ==
    IF n >= 0 THEN Smaller(n, s)
    ELSE IF s + n > 0 THEN s + n ELSE 0

C26_AnyTopNSucceeds ==
    (Returned /\ ValidRequest /\ StandardConstraints /\ Survivors # {}) =>
        /\ result.status = "returned"
        /\ result.success
        /\ LET t == result.data[1]
               composite == CompositeScore(RawScore)
               left == Survivors \ Range(ReturnedRows)
           IN  /\ NRows(t) = RowsFor(req.top_n, Cardinality(Survivors))
               /\ req.top_n = 0 => NRows(t) = 0
               /\ Range(ReturnedRows) \subseteq Survivors
               /\ Cardinality(Range(ReturnedRows)) = NRows(t)
               /\ req.top_n < 0 =>
                     /\ Cardinality(left) = Smaller(0 - req.top_n, Cardinality(Survivors))
                     /\ \A i \in left : \A j \in Range(ReturnedRows) :
                           FLeq(composite[i], composite[j])

\* top_n = -1 on three surviving rows of different scores: the two best
\* rows are returned, the lowest-ranked one is not.
C26_Witness ==
    /\ Returned /\ result.success
    /\ req.top_n = -1
    /\ Cardinality(Survivors) = 3
    /\ NRows(result.data[1]) = 2
    /\ \E i \in Survivors \ Range(ReturnedRows) :
          \A j \in Range(ReturnedRows) :
              FLess(CompositeScore(RawScore)[i], CompositeScore(RawScore)[j])

\* top_n = 0: a success with a table of no rows.
C26_WitnessZero ==
    /\ Returned /\ result.success
    /\ req.top_n = 0
    /\ Cardinality(Survivors) = 2
    /\ NRows(result.data[1]) = 0
    /\ result.summary[1].result_rows = 0

\* top_n = -k with k above the number of surviving rows: no row is returned.
C26_WitnessAllDropped ==
    /\ Returned /\ result.success
    /\ Cardinality(Survivors) = 2
    /\ req.top_n = -3
    /\ NRows(result.data[1]) = 0

(***************************************************************************)
(* C30.  The two length checks that analyze performs after                 *)
(* _validate_inputs are unreachable: for no dataset and request does       *)
(* analyze return an error message that starts with 'Mismatch:', because   *)
(* _validate_inputs already rejects every request whose direction or       *)
(* weight list differs in length from the target list.                     *)
(***************************************************************************)
LengthsDiffer ==
    \/ Len(req.optimization_directions) # Len(req.target_variables)
    \/ Len(req.weights) # Len(req.target_variables)

C30_MismatchIsNeverReturned ==
    /\ (Returned /\ result.status = "returned" /\ ~result.success) =>
          result.error[1][1] # "Mismatch: "
    /\ pc \in {"check_lengths", "apply_constraints"} => ~LengthsDiffer
    /\ (Returned /\ LengthsDiffer) =>
          /\ ~result.success
          /\ called \subseteq {"_validate_inputs"}

\* Directions for one target and weights for two, given with two existing
\* targets: _validate_inputs has returned the direction count error.
C30_Witness ==
    /\ Returned
    /\ Len(req.target_variables) = 2
    /\ Len(req.optimization_directions) = 1 /\ Len(req.weights) = 2
    /\ "_validate_inputs" \in called
    /\ result.error[1][1] = "Optimization direction must be specified for all "

\* The weight list alone is too short.
C30_WitnessWeights ==
    /\ Returned
    /\ Len(req.target_variables) = 2
    /\ Len(req.optimization_directions) = 2 /\ Len(req.weights) = 1
    /\ result.error[1][1] = "Weights must be specified for all "

\* The checks have run on a request with two targets and let it pass.
C30_WitnessChecksRun ==
    /\ pc = "apply_constraints"
    /\ Len(req.target_variables) = 2

(***************************************************************************)
(* C23.  AnalysisRegistry is a process-wide singleton with shared state:   *)
(* every construction returns the same instance; a registration made       *)
(* through any reference is seen through every other; registering an id    *)
(* that exists replaces its class and keeps the other ids (so that         *)
(* repeating MainWindow._register_analyzers leaves exactly its four ids);  *)
(* register with a class that does not derive from BaseAnalyzer raises     *)
(* ValueError and leaves the registry unchanged.                           *)
(***************************************************************************)
FourIds == {"dataset_overview", "basic_statistics", "correlation", "optimization"}
Analyzers ==
    {"DatasetOverviewAnalyzer", "BasicStatisticsAnalyzer", "CorrelationAnalyzer",
     "OptimizationAnalyzer"}

\* All references held are one object.
OneInstance == \A k, j \in DOMAIN registries : registries[k] = registries[j]

\* What the registry holds before and after the step.
Held == AnalysisRegistry._analyzers
HeldAfter == AnalysisRegistry'._analyzers

\* The step is the call that result' describes.
RegistryCall(name) == result'.call[1] = name

RegisterStepIsRight ==
    RegistryCall("register") =>
        LET id == result'.call[3]
            class == result'.call[4]
        IN  IF class \in Analyzers
            THEN /\ result'.status = "returned"
                 /\ DOMAIN HeldAfter = DOMAIN Held \cup {id}
                 /\ HeldAfter[id] = class
                 /\ \A other \in DOMAIN Held \ {id} : HeldAfter[other] = Held[other]
            ELSE /\ result'.status = "raised"
                 /\ result'.exception[1] = "ValueError"
                 /\ AnalysisRegistry' = AnalysisRegistry

RegisterAnalyzersStepIsRight ==
    RegistryCall("_register_analyzers") =>
        /\ DOMAIN HeldAfter = DOMAIN Held \cup FourIds
        /\ DOMAIN Held \subseteq FourIds => DOMAIN HeldAfter = FourIds
        /\ \A other \in DOMAIN Held \ FourIds : HeldAfter[other] = Held[other]
        /\ \A k \in DOMAIN OwnAnalyzers : HeldAfter[OwnAnalyzers[k][1]] = OwnAnalyzers[k][2]

ConstructStepIsRight ==
    RegistryCall("__new__") =>
        /\ result'.value = registries[1]
        /\ registries' = Append(registries, registries[1])
        /\ HeldAfter = Held

GetStepIsRight ==
    RegistryCall("get_analyzer") =>
        /\ AnalysisRegistry' = AnalysisRegistry
        /\ result'.value = (IF result'.call[3] \in DOMAIN Held
                            THEN Some(Held[result'.call[3]]) ELSE None)

RegistryStepIsRight ==
    /\ OneInstance'
    /\ RegisterStepIsRight
    /\ RegisterAnalyzersStepIsRight
    /\ ConstructStepIsRight
    /\ GetStepIsRight

C23_RegistryIsSharedSingleton == OneInstance /\ [][RegistryStepIsRight]_vars

\* A class registered through one reference was read through another, after
\* it had replaced the class the window registered under the same id.
C23_Witness ==
    /\ Len(registries) >= 2
    /\ result.status = "returned"
    /\ result.call[1] = "get_analyzer"
    /\ result.call[3] = "optimization"
    /\ result.value = Some("CorrelationAnalyzer")
    /\ FourIds \subseteq DOMAIN AnalysisRegistry._analyzers

\* _register_analyzers ran again (the ids were there) and left the four ids.
C23_WitnessRepeated ==
    /\ result.status = "returned"
    /\ result.call[1] = "_register_analyzers"
    /\ DOMAIN AnalysisRegistry._analyzers = FourIds
    /\ AnalysisRegistry._analyzers["optimization"] = "OptimizationAnalyzer"

\* register raised ValueError on a registry that holds analyzers.
C23_WitnessValueError ==
    /\ result.status = "raised"
    /\ result.call[1] = "register"
    /\ result.call[4] = "FileHandler"
    /\ AnalysisRegistry._analyzers # <<>>

(***************************************************************************)
(* C27.  Every configuration get_configuration returns after the dialog    *)
(* was accepted has target, direction and weight lists of one length       *)
(* between 1 and 5, pairwise distinct numeric targets, directions among    *)
(* maximize and minimize, weights in [0, 100], constraint keys that are    *)
(* selected targets with comparators among >, >=, <, <=, ==, and at least  *)
(* one input variable, none of them a target; so the only validation rule  *)
(* of the analyzer it can break is 'at least one weight must be positive'. *)
(***************************************************************************)
IsDialogConfiguration(f, c) ==
    /\ Len(c.target_variables) \in 1..5
    /\ Len(c.optimization_directions) = Len(c.target_variables)
    /\ Len(c.weights) = Len(c.target_variables)
    /\ \A i, j \in DOMAIN c.target_variables :
           i # j => c.target_variables[i] # c.target_variables[j]
    /\ \A i \in DOMAIN c.target_variables :
           /\ \E k \in DOMAIN f.columns : f.columns[k] = c.target_variables[i]
           /\ \A r \in DOMAIN f.rows : f.rows[r][c.target_variables[i]] \in Int
    /\ \A i \in DOMAIN c.optimization_directions :
           c.optimization_directions[i] \in {"maximize", "minimize"}
    /\ \A i \in DOMAIN c.weights : c.weights[i] >= 0 /\ c.weights[i] <= 100
    /\ \A k \in DOMAIN c.constraints :
           /\ \E i \in DOMAIN c.target_variables : c.target_variables[i] = c.constraints[k].key
           /\ c.constraints[k].type \in {<<">">>, <<">=">>, <<"<">>, <<"<=">>, <<"==">>}
    /\ Len(c.input_variables) >= 1
    /\ \A i \in DOMAIN c.input_variables, j \in DOMAIN c.target_variables :
           c.input_variables[i] # c.target_variables[j]

\* The request _on_optimization_clicked makes of a configuration.
RequestOf(c) ==
    Request(c.target_variables, c.optimization_directions, c.constraints, c.weights,
            c.input_variables, 10)

C27_AcceptedConfigurationIsValid ==
    (dialog.status = "accepted" /\ dialog.config # None) =>
        /\ IsDialogConfiguration(dialog.data, dialog.config[1])
        /\ validate_data(<<dialog.data>>, 1) = None
        /\ _validate_inputs(dialog.data, RequestOf(dialog.config[1]))
               \in {None, Some(<<"At least one weight must be positive.">>)}

\* A configuration of two targets, one minimized, with a constraint of
\* comparator == on one of them, which the analyzer accepts.
C27_Witness ==
    /\ dialog.status = "accepted"
    /\ dialog.config # None
    /\ Len(dialog.config[1].target_variables) = 2
    /\ "minimize" \in Range(dialog.config[1].optimization_directions)
    /\ \E k \in DOMAIN dialog.config[1].constraints :
           dialog.config[1].constraints[k].type = <<"==">>
    /\ _validate_inputs(dialog.data, RequestOf(dialog.config[1])) = None

\* An accepted configuration that the analyzer rejects: its weights are 0.
C27_WitnessZeroWeight ==
    /\ dialog.status = "accepted"
    /\ dialog.config # None
    /\ _validate_inputs(dialog.data, RequestOf(dialog.config[1]))
           = Some(<<"At least one weight must be positive.">>)

\* Run was refused because a target was also checked as an input.
C27_WitnessOverlapRefused ==
    /\ dialog.status = "open"
    /\ dialog.warning = Some(<<"Target variables and input variables cannot overlap.">>)

(***************************************************************************)
(* C28.  If MainWindow.load_file is called a second time before the first  *)
(* background load has completed, the dataset finally held in              *)
(* MainWindow.data, and shown in the preview, is that of the second, most  *)
(* recently requested file, whatever the order in which the two loader     *)
(* threads finish.  (Stated for a second file that loads, at the moment    *)
(* when every thread has ended, every signal is handled, no box is open    *)
(* and the last handler that ran is _on_file_loaded.  It does not hold:    *)
(* the signals are handled in the order the threads finish.)               *)
(***************************************************************************)
LastRequested == threads[Len(threads)]

AllLoadsSettled ==
    /\ window.status = "running"
    /\ \A t \in DOMAIN threads : threads[t].state = "finished"
    /\ events = <<>>
    /\ window.boxes = <<>>
    /\ dialog = NoDialog
    /\ window.handler = "_on_file_loaded"

C28_LastRequestedFileWins ==
    (/\ Len(threads) >= 2
     /\ LastRequested.overlaps
     /\ LastRequested.file_path \in {"a.csv", "b.csv"}
     /\ AllLoadsSettled)
        => /\ window.data # None
           /\ window.data[1].file = LastRequested.file_path
           /\ window.table_layout.table = window.data

\* What holds: when no load was requested before the one before it had
\* completed, the data and the preview are those of the last file.
C28_LoadsOneAfterTheOtherLastWins ==
    (/\ Len(threads) >= 2
     /\ \A t \in DOMAIN threads : ~threads[t].overlaps
     /\ LastRequested.file_path \in {"a.csv", "b.csv"}
     /\ AllLoadsSettled)
        => /\ window.data # None
           /\ window.data[1].file = LastRequested.file_path
           /\ window.table_layout.table = window.data

\* Another way the claim fails: the first load failed, its error box was
\* open while the second file's table was shown, and closing the box reset
\* the preview of the second file to the placeholder.
C28_WitnessPreviewReset ==
    /\ Len(threads) = 2
    /\ LastRequested.overlaps
    /\ LastRequested.file_path = "b.csv"
    /\ AllLoadsSettled
    /\ window.data # None
    /\ window.data[1].file = "b.csv"
    /\ window.table_layout = Placeholder

(***************************************************************************)
(* C29.  A file load that fails (error message, no table, or an empty      *)
(* table) leaves MainWindow.data unchanged: the dataset loaded before      *)
(* stays and analyses keep running on it, although the preview area is     *)
(* reset to the 'No data loaded' placeholder; MainWindow.data is replaced  *)
(* only by a loaded table that is not empty or by dropping columns.        *)
(***************************************************************************)
\* The step handles the finished signal at the head of the queue.
SignalHandled == events # <<>> /\ events' = Tail(events)

SignalTellsFailure ==
    \/ Head(events).error # <<>>
    \/ Head(events).df = <<>>
    \/ Head(events).df[1].rows = 0
    \/ Head(events).df[1].columns = <<>>

FailedLoadKeepsData ==
    (SignalHandled /\ SignalTellsFailure) =>
        /\ window'.data = window.data
        /\ window'.boxes = Append(window.boxes, "_reset_table_container")

\* Closing the error box of a failed load resets the preview, not the data.
ClosedBoxResetsPreview ==
    (/\ window.boxes # <<>>
     /\ Len(window'.boxes) < Len(window.boxes)
     /\ window.boxes[Len(window.boxes)] = "_reset_table_container")
        => /\ window'.table_layout.shows = "No data loaded. Please upload a file."
           /\ window'.data = window.data

DataReplacedOnlyByLoadOrDrop ==
    window'.data # window.data =>
        \/ /\ SignalHandled
           /\ ~SignalTellsFailure
           /\ window'.data = Head(events).df
        \/ /\ dialog # NoDialog
           /\ dialog.status = "columns"
           /\ window.data # <<>>
           /\ window'.data # <<>>
           /\ window'.data[1].file = window.data[1].file
           /\ window'.data[1].rows = window.data[1].rows
           /\ Range(window'.data[1].columns) \subseteq Range(window.data[1].columns)
           /\ Len(window'.data[1].columns) < Len(window.data[1].columns)

\* An accepted optimization dialog analyses the data the window holds.
AnalysisRunsOnData ==
    (dialog # NoDialog /\ dialog.status = "open" /\ window'.analysed # window.analysed)
        => window'.analysed = window.data

C29_Step ==
    /\ FailedLoadKeepsData
    /\ ClosedBoxResetsPreview
    /\ DataReplacedOnlyByLoadOrDrop
    /\ AnalysisRunsOnData

C29_FailedLoadKeepsData == [][C29_Step]_vars

\* After a failed load the preview shows the placeholder, the window still
\* holds the table loaded before, and an optimization clicked in that state
\* has analysed that table.
C29_Witness ==
    /\ window.status = "running"
    /\ window.data # None
    /\ window.data[1].rows > 0
    /\ window.table_layout = Placeholder
    /\ window.handler = "_on_optimization_clicked"
    /\ dialog = NoDialog
    /\ window.analysed = window.data
    /\ \E t \in DOMAIN threads :
           threads[t].file_path \in {"gone.csv", "header.csv"} /\ Completed(t)

\* A failed load was handled while a table was held; its box is still open.
C29_WitnessBoxOpen ==
    /\ window.data # None
    /\ window.boxes # <<>>
    /\ window.boxes[Len(window.boxes)] = "_reset_table_container"
    /\ window.table_layout = Cleared

\* The data was replaced by dropping a column.
C29_WitnessDropped ==
    /\ window.data # None
    /\ window.data[1].file = "a.csv"
    /\ window.data[1].columns = <<"A", "B">>
    /\ window.table_layout = Preview(window.data[1])

====
